---------------------------- MODULE Spec2Model ----------------------------
(***************************************************************************)
(* Model of ImmersedFEM<dim> (source/immersed_fem.cc): the time stepping   *)
(* and Newton driver run(), the application of the essential boundary      *)
(* values, and the ownership of the deformed-configuration mapping.        *)
(*                                                                         *)
(* Degree-of-freedom vectors are block vectors [f |-> fluid, s |-> solid]  *)
(* over a small dof layout; their entries are small integers standing for  *)
(* doubles.  The residual norm is an integer in units of 1e-11, so that    *)
(* both thresholds of run() (1e-10 and 1e-2) are exactly representable.    *)
(* The assembly and the direct solver are collaborators of run(): the      *)
(* norm of the assembled residual and the Newton update they return are    *)
(* drawn from bounded sets.                                                *)
(*                                                                         *)
(* A second specification, AsmSpec, models one evaluation of               *)
(* residual_and_or_Jacobian and its repetition on a discretization of two  *)
(* fluid cells and two solid cells in two dimensions: the loops over the   *)
(* fluid cells, the solid cells and the fluid cells each solid cell        *)
(* overlaps, apply_constraints, the distribution of the local terms to     *)
(* the residual and to the blocks of JF, and the constraint on the mean    *)
(* pressure.  The tables of the shape functions hold integers; the         *)
(* displacement gradients they produce are shears, so that det F = 1 and   *)
(* invert(F) is exact.                                                     *)
(*                                                                         *)
(* ArgSpec repeats the evaluation with either matrix member, JF or K, as   *)
(* the argument jacobian.  StepSpec is run() on the same discretization    *)
(* with the assembled residual and Jacobian in place of the drawn norm:    *)
(* the norm is that of the assembled residual, and the Newton update is    *)
(* any explored vector that solves the rows of the factorized matrix       *)
(* exactly.                                                                *)
(***************************************************************************)
EXTENDS Integers, FiniteSets, Sequences, TLC

\* ------------------------------------------------------------------------
\* Bounds of the model.
\* ------------------------------------------------------------------------
\* par.T / par.dt: number of time steps of a run.
NSteps == 2
\* Entries of the dof vectors range over 0..MaxVal.
MaxVal == 1
\* Number of addresses the allocator can hand out for mapping objects.
MaxMappings == 2
\* The bookkeeping counter n_solve saturates here.
SolveCap == 64

\* ------------------------------------------------------------------------
\* Program constants.
\* ------------------------------------------------------------------------
\* 1e-10 in units of 1e-11 (convergence tolerance of run()).
ResTol == 10
\* 1e-2 in units of 1e-11 (poor-linearization threshold of run()).
ResPoor == 1000000000
\* Length of one cycle of inner iterations.
InnerCap == 15
\* Largest value of the outer counter that the AssertThrow lets pass.
OuterCap == 3

\* ------------------------------------------------------------------------
\* Dof layout: block 0 (fluid, velocity and pressure), block 1 (solid).
\* ------------------------------------------------------------------------
\* The fluid mesh has two cells.  Fluid dofs 0, 1, 2 are velocity dofs and
\* 3, 4, 5 are pressure dofs (the dofs are renumbered component-wise); dof 0
\* lies on a boundary with an essential condition and belongs to both
\* cells, as the pressure dof 3 does.  The solid mesh has two cells that
\* share the solid dof 1.
FluidDofs == 0 .. 5
SolidDofs == 0 .. 2
BoundaryDofs == {0}
pressure_dofs == {3, 4, 5}
constraining_dof == CHOOSE d \in pressure_dofs : \A e \in pressure_dofs : d <= e

Values == 0 .. MaxVal
Vecs == [f : [FluidDofs -> Values], s : [SolidDofs -> Values]]
ZeroVec == [f |-> [d \in FluidDofs |-> 0], s |-> [d \in SolidDofs |-> 0]]

VAdd(x, y) == [f |-> [d \in FluidDofs |-> x.f[d] + y.f[d]],
               s |-> [d \in SolidDofs |-> x.s[d] + y.s[d]]]
VSub(x, y) == [f |-> [d \in FluidDofs |-> x.f[d] - y.f[d]],
               s |-> [d \in SolidDofs |-> x.s[d] - y.s[d]]]

\* Residual norms the assembly can return: just below and exactly at the
\* tolerance, exactly at and just above the poor-linearization threshold.
ResNorms == {ResTol - 1, ResTol, ResPoor, ResPoor + 1}
\* Value of res_norm outside the scope of the declaration.
NoNorm == -1

Params == [update_jacobian_continuously : BOOLEAN,
           update_jacobian_at_step_beginning : BOOLEAN,
           fix_pressure : BOOLEAN,
           semi_implicit : BOOLEAN]

\* The vector with all entries equal to v.
Uniform(v) == [f |-> [d \in FluidDofs |-> v], s |-> [d \in SolidDofs |-> v]]

VARIABLES
  par,                \* IFEMParameters (the flags read by the driver)
  boundary_values,    \* par.boundary_values: map dof -> prescribed value
  pc,                 \* position of the control flow in run()
  time_step, t,       \* locals of run(): step counter and time (units of dt)
  nonlin_iter, outer_nonlin_iter,
  update_Jacobian,
  res_norm,
  current_xi, previous_xi,
  JF, JF_inv,         \* Jacobian and its factorization
  mapping,            \* the pointer member: an address or NULL
  mapping_src,        \* the vector the object at `mapping' refers to
  alive,              \* addresses holding a live mapping object
  heap_faults,        \* "double_delete", "use_after_delete"
  n_solve,            \* linear solves made in the current time step
  n_output,           \* lines written to global_info_file
  last_output,        \* arguments of the last output_step
  global_info_file,   \* the lines of the log, in the order they were written
  last_eval,          \* Jacobian argument of the last evaluation made by run()
  heap_log,           \* heap operations of the last operation on the mapping
  cfg,                \* IFEMParameters (the fields read by the assembly only)
  call,               \* arguments of the last residual_and_or_Jacobian
  n_calls,            \* evaluations made on the constructed object
  residual,           \* the residual vector handed to the evaluation
  JF_values,          \* the entries of the blocks of JF
  A_gamma, M_gamma3_inv_A_gamma,
  mapped_points,      \* fe_v_s_mapped.get_quadrature_points() per solid cell
  first_result,       \* outputs of the first of two identical evaluations
  sparsity,           \* the entries of the blocks of the sparsity pattern
  K_values,           \* the entries of a matrix other than JF passed as jacobian
  JF_inv_values       \* the entries of the matrix JF_inv was initialized with

vars == <<par, boundary_values, pc, time_step, t, nonlin_iter,
          outer_nonlin_iter, update_Jacobian, res_norm, current_xi,
          previous_xi, JF, JF_inv, mapping, mapping_src, alive, heap_faults,
          n_solve, n_output, last_output, global_info_file, last_eval,
          heap_log, cfg, call, n_calls, residual, JF_values, A_gamma,
          M_gamma3_inv_A_gamma, mapped_points, first_result, sparsity,
          K_values, JF_inv_values>>

\* The variables written by the assembly of the values only.
asm_vars == <<cfg, call, n_calls, residual, JF_values, A_gamma,
              M_gamma3_inv_A_gamma, mapped_points, first_result, sparsity,
              K_values, JF_inv_values>>

NULL == 0
MappingIds == 1 .. MaxMappings

\* ------------------------------------------------------------------------
\* Boundary values.
\* ------------------------------------------------------------------------
\* par.u_g at time tt on a boundary dof (time dependent).
u_g(d, tt) == tt % (MaxVal + 1)

\* compute_current_bc: interpolate_boundary_values writes the entries of the
\* boundary dofs into the map, keeping the others; the first pressure dof
\* is added with value 0 when fix_pressure is set.
compute_current_bc(bv, p, tt) ==
  LET dom1 == (DOMAIN bv) \cup BoundaryDofs
      bv1 == [d \in dom1 |-> IF d \in BoundaryDofs THEN u_g(d, tt) ELSE bv[d]]
      dom2 == IF p.fix_pressure THEN dom1 \cup {constraining_dof} ELSE dom1
  IN [d \in dom2 |-> IF p.fix_pressure /\ d = constraining_dof THEN 0 ELSE bv1[d]]

\* The loop over the map writing both blocks of vec.
apply_current_bc_blocks(vec, bv) ==
  [f |-> [d \in FluidDofs |-> IF d \in DOMAIN bv THEN bv[d] ELSE vec.f[d]],
   s |-> [d \in SolidDofs |-> IF d \in DOMAIN bv THEN bv[d] ELSE vec.s[d]]]

\* apply_current_bc: the loop over the map, writing block 0 of vec.
apply_current_bc(vec, bv) ==
  [f |-> [d \in FluidDofs |-> IF d \in DOMAIN bv THEN bv[d] ELSE vec.f[d]],
   s |-> vec.s]

\* ------------------------------------------------------------------------
\* The deformed-configuration mapping (a raw owning pointer).
\* ------------------------------------------------------------------------
\* operator new: the lowest free address.
NewAddr(al) == CHOOSE a \in MappingIds \ al : \A b \in MappingIds \ al : a <= b

\* The pointer overwritten without the delete: the object stays.
FreeAddr_leak(p, al) == al

\* delete p: the object at p is destroyed.
FreeAddr(p, al) == al \ {p}

\* Faults of `delete p': p does not hold a live object.
DeleteFaults(p, al) == IF p \in al THEN {} ELSE {"double_delete"}

\* Faults of `*p': p does not hold a live object.
UseFaults(p, al) == IF p \in al THEN {} ELSE {"use_after_delete"}

\* ------------------------------------------------------------------------
\* residual_and_or_Jacobian, as seen by the driver.
\* ------------------------------------------------------------------------
\* Every matrix taken for a non-empty one.
MatrixEmpty_never(jacobian) == FALSE

\* BlockSparseMatrix::empty(): dummy_JF is never initialized; JF is
\* initialized with the sparsity pattern by the constructor.
MatrixEmpty(jacobian) == jacobian = "dummy_JF"

\* The mapping built from the current iterate whatever the scheme.
MappingSource_current(p) == "current_xi"

\* The vector a new mapping is built from.
MappingSource(p) == IF p.semi_implicit THEN "previous_xi" ELSE "current_xi"

\* The mapping is deleted and built again, the Jacobian (when one is passed)
\* is cleared and assembled, the boundary values of time tt are computed,
\* the mapping is used by assemble_sparsity and by the assembly over the
\* solid.
residual_and_or_Jacobian(jacobian, tt) ==
  LET update_jacobian == ~MatrixEmpty(jacobian)
      faults1 == IF mapping /= NULL THEN DeleteFaults(mapping, alive) ELSE {}
      alive1  == IF mapping /= NULL THEN FreeAddr(mapping, alive) ELSE alive
      addr    == NewAddr(alive1)
      alive2  == alive1 \cup {addr}
  IN /\ MappingIds \ alive1 /= {}
     /\ mapping' = addr
     /\ mapping_src' = MappingSource(par)
     /\ alive' = alive2
     /\ heap_faults' = heap_faults \cup faults1 \cup UseFaults(addr, alive2)
     /\ heap_log' = (IF mapping /= NULL THEN <<"delete">> ELSE <<>>)
                     \o <<"new">>
                     \o (IF update_jacobian THEN <<"use">> ELSE <<>>)
                     \o <<"use">>
     /\ last_eval' = jacobian
     /\ JF' = IF update_jacobian THEN "assembled" ELSE JF
     /\ JF_inv' = IF update_jacobian /\ JF_inv = "current" THEN "stale" ELSE JF_inv
     /\ boundary_values' = compute_current_bc(boundary_values, par, tt)

\* ------------------------------------------------------------------------
\* output_step: one line of global_info_file; the mapping is used for the
\* solid snapshot and for the area and the center of mass of the solid.
\* ------------------------------------------------------------------------
\* global_info_file << t << " " << flux << " " << area << " " << center
\*                  << endl: the time and, after it, the three quantities
\* computed from the solution, on one line.
InfoLine(tt) == [time |-> tt, fields |-> <<"t", "flux", "area", "center">>]

\* No line for the initial conditions.
output_step_steps_only(tt, solution, step) ==
  /\ n_output' = n_output + 1
  /\ global_info_file' = IF step = 0 THEN global_info_file
                          ELSE Append(global_info_file, InfoLine(tt))
  /\ last_output' = [t |-> tt, solution |-> solution, step |-> step]
  /\ heap_faults' = heap_faults \cup UseFaults(mapping, alive)
  /\ heap_log' = <<"use">>

output_step(tt, solution, step) ==
  /\ n_output' = n_output + 1
  /\ global_info_file' = Append(global_info_file, InfoLine(tt))
  /\ last_output' = [t |-> tt, solution |-> solution, step |-> step]
  /\ heap_faults' = heap_faults \cup UseFaults(mapping, alive)
  /\ heap_log' = <<"use">>

\* ------------------------------------------------------------------------
\* The tests of the Newton loop of run().
\* ------------------------------------------------------------------------
\* The tolerance test with the boundary value let through.
Converged_le(r) == r <= ResTol

\* if ( res_norm < 1e-10 )
Converged(r) == r < ResTol

\* The poor-linearization test against the tolerance of the convergence
\* test read the wrong way round.
PoorResidual_lt(r) == r < ResPoor

\* if (res_norm > 1e-2) update_Jacobian = true;
PoorResidual(r) == r > ResPoor

\* The cycle closed one iteration late.
Stalled_late(n) == n = InnerCap + 1

\* if (nonlin_iter == 15), on the counter already incremented.
Stalled(n) == n = InnerCap

\* The stall handled without the reset of the inner counter.
InnerAfterCount_kept(n) == n

InnerAfterCount(n) == IF Stalled(n) THEN 0 ELSE n

\* The stall handled without counting the cycle.
OuterAfterCount_kept(n, o) == o

OuterAfterCount(n, o) == IF Stalled(n) THEN o + 1 ELSE o

FlagAfterCount(n, u) == IF Stalled(n) THEN TRUE ELSE u

\* The assertion with a budget of one cycle less.
WithinRetryBudget_lt(o) == o < OuterCap

\* The condition of AssertThrow (outer_nonlin_iter <= 3, ...).
WithinRetryBudget(o) == o <= OuterCap

\* The policy without the line of update_jacobian_at_step_beginning.
PolicyAtAcceptance_default(p) == p.update_jacobian_continuously

\* update_Jacobian at the end of an accepted step.
PolicyAtAcceptance(p) ==
  IF p.update_jacobian_at_step_beginning THEN TRUE
  ELSE p.update_jacobian_continuously

\* current_xit = (current_xi - previous_xi) / dt, with dt the unit of time.
current_xit == VSub(current_xi, previous_xi)

\* Newton updates the direct solver can return, as explored: the updates
\* that bring every entry of the state x to a common value.
NewtonUpdates(x) == {VSub(Uniform(v), x) : v \in Values}

SatInc(n) == IF n < SolveCap THEN n + 1 ELSE n

\* ------------------------------------------------------------------------
\* The discretization seen by the assembly.
\* ------------------------------------------------------------------------
\* Space dimension.  Vector components are counted from 1: components
\* 1 .. dim are the velocity (or the displacement), component dim + 1 is
\* the pressure; local dofs and quadrature points are counted from 1 too.
dim == 2
Dims == 1 .. dim

\* Cells of the fluid and of the solid triangulation.
FluidCells == {1, 2}
SolidCells == {1, 2}

\* fe_f.dofs_per_cell and fe_s.dofs_per_cell; LocalAll counts up to their
\* sum, n_local_dofs.
fe_f_dofs_per_cell == 4
fe_s_dofs_per_cell == 2
LocalF == 1 .. fe_f_dofs_per_cell
LocalS == 1 .. fe_s_dofs_per_cell
LocalAll == 1 .. (fe_f_dofs_per_cell + fe_s_dofs_per_cell)

\* fe_f.system_to_component_index(i).first, fe_s.system_to_component_index(i).first
fe_f_component == <<1, 2, 3, 3>>
\* fe_f.system_to_component_index(i).second
fe_f_index == <<0, 0, 0, 1>>
fe_s_component == <<1, 2>>

\* cell->get_dof_indices(dofs_f), cell_s->get_dof_indices(dofs_s)
get_dof_indices_f == <<  <<0, 1, 3, 4>>, <<0, 2, 3, 5>>  >>
get_dof_indices_s == <<  <<0, 1>>, <<2, 1>>  >>

\* quad_f.size() and quad_s.size()
nqpf == 1
nqps == 2
QuadS == 1 .. nqps

\* fe_f_v.shape_value(i,q), shape_grad(i,q), shape_hessian(i,q) and JxW(q):
\* the same at every point of a fluid cell.
shape_value_f == <<1, 1, 1, 1>>
shape_grad_f == <<  <<1, 0>>, <<1, 1>>, <<0, 0>>, <<0, 0>>  >>
shape_hessian_f == <<  << <<0, 1>>, <<1, 0>> >>,
                       << <<1, 0>>, <<0, 1>> >>,
                       << <<0, 0>>, <<0, 0>> >>,
                       << <<0, 0>>, <<0, 0>> >>  >>
JxW_f == 1

\* fe_v_s.shape_value(k,qs), shape_grad(k,qs), JxW(qs).  The displacement
\* gradients these tables produce are shears: det F = 1 at every point.
shape_value_s == <<  <<0, 1>>, <<1, 1>>  >>
shape_grad_s == <<  <<0, 1>>, <<0, 0>>  >>
JxW_s == 1

\* fe_v_s.quadrature_point(qs) - par.ring_center, turned by a right angle
\* and normalized: the unit tangent of the CircumferentialFiberModel.
etheta == <<  <<0, 1>>, <<1, 0>>  >>

\* First coordinate of the quadrature points of the solid cells in the
\* reference configuration; fluid cell c is the set of points of first
\* coordinate c.
quadrature_point_s == <<  <<1, 1>>, <<3, 2>>  >>

\* par.rho, par.eta, par.mu, par.Phi_B; 1./par.dt in units of 1/dt.
rho == 1
eta == 1
mu == 1
Phi_B == 1
InvDt == 1

\* GridTools::minimal_cell_diameter(tria_f)
scaling == 4

\* get_area_and_first_pressure_dof: area is the sum of JxW over the fluid
\* cells.
area == Cardinality(FluidCells) * nqpf * JxW_f

\* The pressure is continuous (fe_name_p is not FE_DGP).
dgp_for_p == FALSE

MaterialModels == {"INH_0", "INH_1", "CircumferentialFiberModel"}

\* The fields of par read by the assembly and not by run().
Configs == [use_spread : BOOLEAN,
            all_DBC : BOOLEAN,
            material_model : MaterialModels,
            force : Values]

\* ------------------------------------------------------------------------
\* Tensors of rank 1 and 2 over Dims.
\* ------------------------------------------------------------------------
RECURSIVE SumOver(_, _)
\* Sum of f[x] over the finite set S.
SumOver(f, S) ==
  IF S = {} THEN 0
  ELSE LET x == CHOOSE y \in S : TRUE IN f[x] + SumOver(f, S \ {x})

\* Tensor<1,dim> * Tensor<1,dim>
Dot(a, b) == a[1] * b[1] + a[2] * b[2]

\* Tensor<1,dim> * Tensor<2,dim>
VecMat(a, B) == << a[1] * B[1][1] + a[2] * B[2][1],
                   a[1] * B[1][2] + a[2] * B[2][2] >>

\* contract<1,1>(A, B): the second indices are contracted (A B^T).
Contract11(A, B) == [i \in Dims |-> [j \in Dims |-> Dot(A[i], B[j])]]

\* contract<1,0>(A, B): A B.
Contract10(A, B) ==
  [i \in Dims |-> [j \in Dims |-> A[i][1] * B[1][j] + A[i][2] * B[2][j]]]

outer_product(a, b) == [i \in Dims |-> [j \in Dims |-> a[i] * b[j]]]

transpose(A) == [i \in Dims |-> [j \in Dims |-> A[j][i]]]

determinant(A) == A[1][1] * A[2][2] - A[1][2] * A[2][1]

\* invert(A): the adjugate over the determinant (exact when det A = 1 or -1).
invert(A) ==
  LET det == determinant(A)
  IN << << A[2][2] \div det, (0 - A[1][2]) \div det >>,
        << (0 - A[2][1]) \div det, A[1][1] \div det >> >>

TSub(A, B) == [i \in Dims |-> [j \in Dims |-> A[i][j] - B[i][j]]]
TScale(c, A) == [i \in Dims |-> [j \in Dims |-> c * A[i][j]]]

\* ------------------------------------------------------------------------
\* Fields at the quadrature points.
\* ------------------------------------------------------------------------
\* fe_f_v.get_function_values (vec, .): component comp on fluid cell c.
function_value_f(vec, c, comp) ==
  SumOver([i \in LocalF |->
             IF fe_f_component[i] = comp
             THEN vec[get_dof_indices_f[c][i]] * shape_value_f[i] ELSE 0],
          LocalF)

\* fe_f_v.get_function_gradients (vec, .): gradient of component comp.
function_gradient_f(vec, c, comp) ==
  [d \in Dims |->
     SumOver([i \in LocalF |->
                IF fe_f_component[i] = comp
                THEN vec[get_dof_indices_f[c][i]] * shape_grad_f[i][d] ELSE 0],
             LocalF)]

\* fe_v_s.get_function_values (vec, .): component comp at point qs of the
\* solid cell cs.
function_value_s(vec, cs, qs, comp) ==
  SumOver([k \in LocalS |->
             IF fe_s_component[k] = comp
             THEN vec[get_dof_indices_s[cs][k]] * shape_value_s[k][qs] ELSE 0],
          LocalS)

\* fe_v_s.get_function_gradients (vec, H): H[qs][comp].
function_gradient_s(vec, cs, qs, comp) ==
  [d \in Dims |->
     SumOver([k \in LocalS |->
                IF fe_s_component[k] = comp
                THEN vec[get_dof_indices_s[cs][k]] * shape_grad_s[k][d] ELSE 0],
             LocalS)]

\* ------------------------------------------------------------------------
\* get_Pe_F_and_DPeFT_dxi_values.
\* ------------------------------------------------------------------------
\* F[i] = H[qs][i]; F[i][i] += 1.0;
DeformationGradient(W, cs, qs) ==
  [i \in Dims |->
     [j \in Dims |-> function_gradient_s(W, cs, qs, i)[j]
                       + (IF i = j THEN 1 ELSE 0)]]

etheta_op_etheta(qs) == outer_product(etheta[qs], etheta[qs])

\* The stress of INH_0 without the term in F^-T.
PiolaKirchhoff_no_rest(model, F, qs) ==
  CASE model \in {"INH_0", "INH_1"} -> TScale(mu, F)
    [] model = "CircumferentialFiberModel" ->
         TScale(mu, Contract10(F, etheta_op_etheta(qs)))

\* The first Piola-Kirchhoff stress Pe[qs] of the three material models.
PiolaKirchhoff(model, F, qs) ==
  CASE model = "INH_0" -> TScale(mu, TSub(F, transpose(invert(F))))
    [] model = "INH_1" -> TScale(mu, F)
    [] model = "CircumferentialFiberModel" ->
         TScale(mu, Contract10(F, etheta_op_etheta(qs)))

\* DPeFT_dxi[qs][k]: derivative of Pe F^T with respect to the local solid
\* dof k.
DPeFT_dxi(model, F, qs, k) ==
  LET comp_k == fe_s_component[k]
      g == IF model = "CircumferentialFiberModel"
           THEN VecMat(shape_grad_s[k], etheta_op_etheta(qs))
           ELSE shape_grad_s[k]
  IN [i \in Dims |->
        [j \in Dims |->
           mu * ((IF i = comp_k THEN Dot(g, F[j]) ELSE 0)
                 + (IF j = comp_k THEN Dot(g, F[i]) ELSE 0))]]

\* get_Agamma_values: local_A_gamma(k), Agamma = P:Grad_y.
get_Agamma_values(model, W, cs) ==
  [k \in LocalS |->
     SumOver([qs \in QuadS |->
                Dot(PiolaKirchhoff(model, DeformationGradient(W, cs, qs), qs)
                      [fe_s_component[k]],
                    shape_grad_s[k]) * JxW_s],
             QuadS)]

\* MatrixCreator::create_mass_matrix (dh_s, quad_s, M_gamma3, &phi_b_func):
\* the local dofs of a cell have different components, so the matrix is
\* diagonal; M_gamma3[d] is its entry (d, d).
M_gamma3 ==
  [d \in SolidDofs |->
     SumOver([cs \in SolidCells |->
        SumOver([k \in LocalS |->
           IF get_dof_indices_s[cs][k] = d
           THEN SumOver([qs \in QuadS |->
                           Phi_B * shape_value_s[k][qs] * shape_value_s[k][qs]
                             * JxW_s], QuadS)
           ELSE 0], LocalS)], SolidCells)]

\* M_gamma3_inv.solve (v): the solve with the diagonal matrix.
M_gamma3_inv_solve(v) == [d \in SolidDofs |-> v[d] \div M_gamma3[d]]

\* ------------------------------------------------------------------------
\* Point location (FEFieldFunction::compute_point_locations).
\* ------------------------------------------------------------------------
\* fe_v_s_mapped.get_quadrature_points(): the point qs of the solid cell cs
\* displaced by the field W the mapping refers to.
mapped_quadrature_point(W, cs, qs) ==
  quadrature_point_s[cs][qs] + function_value_s(W, cs, qs, 1)

\* fluid_maps[c]: the quadrature points of cs that fall in the fluid cell c.
fluid_maps(W, cs, c) ==
  {qs \in QuadS : mapped_quadrature_point(W, cs, qs) = c}

\* fluid_cells: the fluid cells holding a quadrature point of cs.
fluid_cells(W, cs) == {c \in FluidCells : fluid_maps(W, cs, c) /= {}}

\* ------------------------------------------------------------------------
\* Local contributions.  A local residual is a function over LocalAll, a
\* local Jacobian a function over LocalAll x LocalAll; the local dofs of
\* the fluid cell come first, the local solid dof k is wk = k + offset.
\* ------------------------------------------------------------------------
offset == fe_f_dofs_per_cell

\* FullMatrix local_jacobian is sized only when the Jacobian is updated.
EmptyMatrix == <<>>

\* The cell loop of the fluid: equations in V' and in Q' (local_res).
fluid_local_res(c, xit, xi, cf) ==
  LET up  == << function_value_f(xi.f, c, 1), function_value_f(xi.f, c, 2),
                function_value_f(xi.f, c, 3) >>
      upt == << function_value_f(xit.f, c, 1), function_value_f(xit.f, c, 2),
                function_value_f(xit.f, c, 3) >>
      gu  == << function_gradient_f(xi.f, c, 1), function_gradient_f(xi.f, c, 2) >>
  IN [i \in LocalAll |->
        IF i \notin LocalF THEN 0
        ELSE LET comp_i == fe_f_component[i]
             IN IF comp_i <= dim
                THEN rho * (upt[comp_i] - cf.force) * shape_value_f[i] * JxW_f
                     - up[dim + 1] * shape_grad_f[i][comp_i] * JxW_f
                     + SumOver([d \in Dims |->
                          eta * (gu[comp_i][d] + gu[d][comp_i])
                              * shape_grad_f[i][d] * JxW_f
                          + rho * gu[comp_i][d] * up[d]
                              * shape_value_f[i] * JxW_f], Dims)
                ELSE 0 - SumOver([d \in Dims |->
                          gu[d][d] * shape_value_f[i] * JxW_f], Dims)]

\* The cell loop of the fluid: local_jacobian.
fluid_local_jac(c, xi, alpha) ==
  LET up == << function_value_f(xi.f, c, 1), function_value_f(xi.f, c, 2),
               function_value_f(xi.f, c, 3) >>
      gu == << function_gradient_f(xi.f, c, 1), function_gradient_f(xi.f, c, 2) >>
  IN [i \in LocalAll |-> [j \in LocalAll |->
        IF i \notin LocalF \/ j \notin LocalF THEN 0
        ELSE LET comp_i == fe_f_component[i]
                 comp_j == fe_f_component[j]
             IN IF comp_i <= dim
                THEN (IF comp_i = comp_j
                      THEN rho * alpha * shape_value_f[i] * shape_value_f[j] * JxW_f
                      ELSE 0)
                     - (IF comp_j = dim + 1
                        THEN shape_grad_f[i][comp_i] * shape_value_f[j] * JxW_f
                        ELSE 0)
                     + (IF comp_j = comp_i
                        THEN SumOver([d \in Dims |->
                               eta * shape_grad_f[i][d] * shape_grad_f[j][d] * JxW_f
                               + rho * shape_value_f[i] * up[d]
                                   * shape_grad_f[j][d] * JxW_f], Dims)
                        ELSE 0)
                     + (IF comp_j <= dim
                        THEN eta * shape_grad_f[i][comp_j] * shape_grad_f[j][comp_i]
                                 * JxW_f
                             + rho * gu[comp_i][comp_j] * shape_value_f[i]
                                   * shape_value_f[j] * JxW_f
                        ELSE 0)
                ELSE IF comp_j <= dim
                     THEN 0 - shape_value_f[i] * shape_grad_f[j][comp_j] * JxW_f
                     ELSE 0]]

\* if (par.all_DBC && !par.fix_pressure)
PressureAverageConstraint(p, cf) == cf.all_DBC /\ ~p.fix_pressure

\* The local dofs that enter the average of the pressure.
InPressureAverage(i) ==
  /\ fe_f_component[i] = dim + 1
  /\ (~dgp_for_p) \/ (dgp_for_p /\ fe_f_index[i] = 0)

\* local_average_pressure of the fluid cell c.
local_average_pressure(c, xi, p, cf) ==
  IF PressureAverageConstraint(p, cf)
  THEN SumOver([i \in LocalF |->
                  IF InPressureAverage(i)
                  THEN xi.f[get_dof_indices_f[c][i]] * shape_value_f[i] * JxW_f
                  ELSE 0], LocalF)
  ELSE 0

\* local_pressure_coefficient of the fluid cell c.
local_pressure_coefficient(c, p, cf, update_jacobian) ==
  [i \in LocalAll |->
     IF i \in LocalF /\ PressureAverageConstraint(p, cf) /\ update_jacobian
        /\ InPressureAverage(i)
     THEN shape_value_f[i] * JxW_f
     ELSE 0]

\* ------------------------------------------------------------------------
\* The coupling of a solid cell cs with a fluid cell c that holds the
\* quadrature points Q of cs.
\* ------------------------------------------------------------------------
\* PeFT = contract<1,1>(Pe[qs],F[qs])
PeFT(model, W, cs, qs) ==
  LET F == DeformationGradient(W, cs, qs)
  IN Contract11(PiolaKirchhoff(model, F, qs), F)

\* Equation in V', residual: the direct form.
coupling_V_res_direct(cs, c, Q, xi, cf) ==
  [i \in LocalAll |->
     IF i \in LocalF /\ fe_f_component[i] <= dim
     THEN SumOver([qs \in Q |->
            Dot(PeFT(cf.material_model, xi.s, cs, qs)[fe_f_component[i]],
                shape_grad_f[i]) * JxW_s], Q)
     ELSE 0]

\* Equation in V', residual: the spread operator.
coupling_V_res_spread(cs, c, Q, local_M_gamma3_inv_A_gamma) ==
  [i \in LocalAll |->
     IF i \in LocalF /\ fe_f_component[i] <= dim
     THEN SumOver([qs \in Q |->
            SumOver([j \in LocalS |->
               IF fe_f_component[i] = fe_s_component[j]
               THEN Phi_B * shape_value_f[i] * shape_value_s[j][qs]
                      * local_M_gamma3_inv_A_gamma[j] * JxW_s
               ELSE 0], LocalS)], Q)
     ELSE 0]

\* if (!par.use_spread) ... else ...
coupling_V_res(cs, c, Q, xi, cf, local_M_gamma3_inv_A_gamma) ==
  IF ~cf.use_spread
  THEN coupling_V_res_direct(cs, c, Q, xi, cf)
  ELSE coupling_V_res_spread(cs, c, Q, local_M_gamma3_inv_A_gamma)

\* Equation in V', Jacobian: the derivative of the stress.
coupling_V_jac_stress(cs, Q, xi, cf, i, j) ==
  SumOver([qs \in Q |->
     Dot(DPeFT_dxi(cf.material_model,
                   DeformationGradient(xi.s, cs, qs), qs, j)[fe_f_component[i]],
         shape_grad_f[i]) * JxW_s], Q)

\* Equation in V', Jacobian: the term of the Hessian of the shape functions.
coupling_V_jac_hessian(cs, Q, xi, cf, i, j) ==
  SumOver([qs \in Q |->
     Dot(PeFT(cf.material_model, xi.s, cs, qs)[fe_f_component[i]],
         shape_hessian_f[i][fe_s_component[j]])
       * shape_value_s[j][qs] * JxW_s], Q)

\* The Hessian term added also in the semi-implicit scheme.
HessianTermOn_always(p) == TRUE

\* if ( !par.semi_implicit ) local_jacobian(i,wj) += ( PeFT[comp_i] * ...
HessianTermOn(p) == ~p.semi_implicit

\* The branch of the spread operator without the term of the Hessian.
coupling_V_jac_by_form(cs, c, Q, xi, p, cf) ==
  [i \in LocalAll |-> [wj \in LocalAll |->
     IF i \in LocalF /\ fe_f_component[i] <= dim /\ wj \notin LocalF
     THEN coupling_V_jac_stress(cs, Q, xi, cf, i, wj - offset)
          + (IF HessianTermOn(p) /\ ~cf.use_spread
             THEN coupling_V_jac_hessian(cs, Q, xi, cf, i, wj - offset)
             ELSE 0)
     ELSE 0]]

\* Equation in V', Jacobian: the same two terms in both branches of
\* use_spread.
coupling_V_jac(cs, c, Q, xi, p, cf) ==
  [i \in LocalAll |-> [wj \in LocalAll |->
     IF i \in LocalF /\ fe_f_component[i] <= dim /\ wj \notin LocalF
     THEN coupling_V_jac_stress(cs, Q, xi, cf, i, wj - offset)
          + (IF HessianTermOn(p)
             THEN coupling_V_jac_hessian(cs, Q, xi, cf, i, wj - offset)
             ELSE 0)
     ELSE 0]]

\* Equation in Y', residual: - u(x,t) . y(s).
coupling_Y_res(cs, c, Q, xi) ==
  [wi \in LocalAll |->
     IF wi \in LocalF THEN 0
     ELSE LET i == wi - offset
          IN 0 - SumOver([qs \in Q |->
                   Phi_B * function_value_f(xi.f, c, fe_s_component[i])
                     * shape_value_s[i][qs] * JxW_s], Q)]

\* Equation in Y', Jacobian: local_jacobian(wi,j).
coupling_Y_jac_interpolation(Q, i, j) ==
  IF fe_s_component[i] = fe_f_component[j]
  THEN 0 - SumOver([qs \in Q |->
             Phi_B * shape_value_s[i][qs] * shape_value_f[j] * JxW_s], Q)
  ELSE 0

\* Equation in Y', Jacobian: local_jacobian(wi,wk).
coupling_Y_jac_position(c, Q, xi, i, k) ==
  0 - SumOver([j \in LocalF |->
        IF fe_s_component[i] = fe_f_component[j]
        THEN SumOver([qs \in Q |->
               Phi_B * shape_value_s[i][qs] * shape_value_s[k][qs]
                 * shape_grad_f[j][fe_s_component[k]]
                 * xi.f[get_dof_indices_f[c][j]] * JxW_s], Q)
        ELSE 0], LocalF)

coupling_Y_jac(cs, c, Q, xi, p) ==
  [wi \in LocalAll |-> [wj \in LocalAll |->
     IF wi \in LocalF THEN 0
     ELSE IF wj \in LocalF
          THEN coupling_Y_jac_interpolation(Q, wi - offset, wj)
          ELSE IF ~p.semi_implicit
               THEN coupling_Y_jac_position(c, Q, xi, wi - offset, wj - offset)
               ELSE 0]]

\* The term of the equation in Y' that involves dw/dt, residual.
inertia_res(cs, xit) ==
  [wi \in LocalAll |->
     IF wi \in LocalF THEN 0
     ELSE LET i == wi - offset
          IN SumOver([qs \in QuadS |->
               Phi_B * function_value_s(xit.s, cs, qs, fe_s_component[i])
                 * shape_value_s[i][qs] * JxW_s], QuadS)]

\* The term of the equation in Y' that involves dw/dt, Jacobian.
inertia_jac(cs, alpha) ==
  [wi \in LocalAll |-> [wj \in LocalAll |->
     IF wi \in LocalF \/ wj \in LocalF THEN 0
     ELSE LET i == wi - offset
              j == wj - offset
          IN IF fe_s_component[i] = fe_s_component[j]
             THEN SumOver([qs \in QuadS |->
                    Phi_B * alpha * shape_value_s[i][qs] * shape_value_s[j][qs]
                      * JxW_s], QuadS)
             ELSE 0]]

\* ------------------------------------------------------------------------
\* apply_constraints and the distribution to the global system.
\* ------------------------------------------------------------------------
\* The local dof i belongs to the list dofs and is in par.boundary_values.
Constrained(i, dofs, bv) == i \in 1 .. Len(dofs) /\ dofs[i] \in DOMAIN bv

\* No local dof taken for the dof that carries the constraint.
Pinned_never(i, dofs, p, cf) == FALSE

\* The local dof i is the dof that carries the constraint on the pressure.
Pinned(i, dofs, p, cf) ==
  /\ i \in 1 .. Len(dofs)
  /\ PressureAverageConstraint(p, cf)
  /\ dofs[i] = constraining_dof

\* The rows of the dofs of the map left as the cell assembled them.
apply_constraints_none(local_res, local_jacobian, value_of_dofs, dofs, bv, p, cf) ==
  [res |-> local_res, jac |-> local_jacobian]

\* apply_constraints (local_res, local_jacobian, value_of_dofs, dofs): the
\* rows of the dofs in the map are overwritten; the row of constraining_dof
\* is emptied (local_res[i] = 0; local_jacobian.add_row(i, -1, i)).
apply_constraints(local_res, local_jacobian, value_of_dofs, dofs, bv, p, cf) ==
  [res |-> [i \in LocalAll |->
              IF Pinned(i, dofs, p, cf) THEN 0
              ELSE IF Constrained(i, dofs, bv)
                   THEN scaling * (value_of_dofs[dofs[i]] - bv[dofs[i]])
                   ELSE local_res[i]],
   jac |-> IF DOMAIN local_jacobian = {} THEN EmptyMatrix
           ELSE [i \in LocalAll |-> [j \in LocalAll |->
                   IF Pinned(i, dofs, p, cf) THEN 0
                   ELSE IF Constrained(i, dofs, bv)
                        THEN (IF j = i THEN scaling ELSE 0)
                        ELSE local_jacobian[i][j]]]]

\* distribute_residual (residual, local_res, dofs_1, offset_1): what the
\* call adds to residual(d).
distribute_residual(local_res, dofs_1, offset_1, d) ==
  SumOver([i \in 1 .. Len(dofs_1) |->
             IF dofs_1[i] = d THEN local_res[i + offset_1] ELSE 0],
          1 .. Len(dofs_1))

\* distribute_jacobian (Jacobian, local_Jac, dofs_1, dofs_2, offset_1,
\* offset_2): what the call adds to Jacobian(r, c).
distribute_jacobian(local_Jac, dofs_1, dofs_2, offset_1, offset_2, r, c) ==
  SumOver([i \in 1 .. Len(dofs_1) |->
     IF dofs_1[i] = r
     THEN SumOver([j \in 1 .. Len(dofs_2) |->
            IF dofs_2[j] = c THEN local_Jac[i + offset_1][j + offset_2] ELSE 0],
          1 .. Len(dofs_2))
     ELSE 0], 1 .. Len(dofs_1))

\* distribute_constraint_on_pressure (residual, average_pressure): what the
\* call adds to residual(d).
distribute_constraint_on_pressure_res(average_pressure, d) ==
  IF d = constraining_dof THEN (average_pressure * scaling) \div area ELSE 0

\* distribute_constraint_on_pressure (jacobian, pressure_coefficient, dofs,
\* offset): what the call adds to jacobian(r, c).
distribute_constraint_on_pressure_jac(pressure_coefficient, dofs, off, r, c) ==
  IF r = constraining_dof
  THEN SumOver([i \in 1 .. Len(dofs) |->
         IF dofs[i] = c
         THEN (pressure_coefficient[i + off] * scaling) \div area ELSE 0],
       1 .. Len(dofs))
  ELSE 0

\* The vector kept as it was.
ResetVector_keep(v) == v

\* residual = 0;  A_gamma = 0.0;
ResetVector(v) == [d \in DOMAIN v |-> 0]

ZeroBlock(Rows, Cols) == [r \in Rows |-> [c \in Cols |-> 0]]

\* JF.reinit(sparsity): every entry of every block is zero.
ZeroMatrix == [ff |-> ZeroBlock(FluidDofs, FluidDofs),
               fs |-> ZeroBlock(FluidDofs, SolidDofs),
               sf |-> ZeroBlock(SolidDofs, FluidDofs),
               ss |-> ZeroBlock(SolidDofs, SolidDofs)]

\* The displacement field the mapping built by the evaluation refers to.
MappingField(p, prev, xi) ==
  IF MappingSource(p) = "previous_xi" THEN prev.s ELSE xi.s

\* The pairs (solid cell, fluid cell) visited by the loops over the immersed
\* domain.
CouplingPairs(W) ==
  {pr \in SolidCells \X FluidCells : pr[2] \in fluid_cells(W, pr[1])}

\* The inertial term assembled once per overlapping fluid cell.
InertiaPasses_per_fluid_cell(W, cs) == Cardinality(fluid_cells(W, cs))

\* Number of times the term in dw/dt of the solid cell cs is assembled: the
\* statements stand after the loop over fluid_cells.
InertiaPasses(W, cs) == 1

\* ------------------------------------------------------------------------
\* The passes of residual_and_or_Jacobian with the constraints applied.
\* ------------------------------------------------------------------------
\* One cell of the loop over the fluid domain.
FluidPass(c, xit, xi, alpha, update_jacobian, bv, p, cf) ==
  apply_constraints(fluid_local_res(c, xit, xi, cf),
                    IF update_jacobian THEN fluid_local_jac(c, xi, alpha)
                    ELSE EmptyMatrix,
                    xi.f, get_dof_indices_f[c], bv, p, cf)

\* localize (local_M_gamma3_inv_A_gamma, M_gamma3_inv_A_gamma, dofs_s)
localize(v, cs) == [j \in LocalS |-> v[get_dof_indices_s[cs][j]]]

\* Equation in V' for the pair (cs, c).
CouplingPassV(cs, c, W, xi, Mg, update_jacobian, bv, p, cf) ==
  apply_constraints(coupling_V_res(cs, c, fluid_maps(W, cs, c), xi, cf,
                                   localize(Mg, cs)),
                    IF update_jacobian
                    THEN coupling_V_jac(cs, c, fluid_maps(W, cs, c), xi, p, cf)
                    ELSE EmptyMatrix,
                    xi.f, get_dof_indices_f[c], bv, p, cf)

\* Equation in Y' for the pair (cs, c).
CouplingPassY(cs, c, W, xi, update_jacobian, bv, p, cf) ==
  apply_constraints(coupling_Y_res(cs, c, fluid_maps(W, cs, c), xi),
                    IF update_jacobian
                    THEN coupling_Y_jac(cs, c, fluid_maps(W, cs, c), xi, p)
                    ELSE EmptyMatrix,
                    xi.f, get_dof_indices_f[c], bv, p, cf)

\* A_gamma after the loop over the solid cells.
Assemble_A_gamma(A0, xi, cf) ==
  [d \in SolidDofs |->
     ResetVector(A0)[d]
     + SumOver([cs \in SolidCells |->
          distribute_residual(get_Agamma_values(cf.material_model, xi.s, cs),
                              get_dof_indices_s[cs], 0, d)], SolidCells)]

\* residual.block(0) after the evaluation.
Assemble_residual_f(res0, xit, xi, alpha, update_jacobian, W, Mg, bv, p, cf) ==
  [d \in FluidDofs |->
     ResetVector(res0)[d]
     + SumOver([c \in FluidCells |->
          distribute_residual(FluidPass(c, xit, xi, alpha, update_jacobian, bv, p, cf).res,
                              get_dof_indices_f[c], 0, d)
          + (IF PressureAverageConstraint(p, cf)
             THEN distribute_constraint_on_pressure_res(
                    local_average_pressure(c, xi, p, cf), d)
             ELSE 0)], FluidCells)
     + SumOver([pr \in CouplingPairs(W) |->
          distribute_residual(
            CouplingPassV(pr[1], pr[2], W, xi, Mg, update_jacobian, bv, p,
                          cf).res,
            get_dof_indices_f[pr[2]], 0, d)], CouplingPairs(W))]

\* residual.block(1) after the evaluation.
Assemble_residual_s(res0, xit, xi, update_jacobian, W, bv, p, cf) ==
  [d \in SolidDofs |->
     ResetVector(res0)[d]
     + SumOver([pr \in CouplingPairs(W) |->
          distribute_residual(
            CouplingPassY(pr[1], pr[2], W, xi, update_jacobian, bv, p, cf).res,
            get_dof_indices_s[pr[1]], offset, d)], CouplingPairs(W))
     + SumOver([cs \in SolidCells |->
          InertiaPasses(W, cs)
            * distribute_residual(inertia_res(cs, xit),
                                  get_dof_indices_s[cs], offset, d)],
          SolidCells)]

\* What the evaluation adds to the blocks of the member JF (the calls of
\* distribute_jacobian name JF.block) and, through jacobian.block(0,0), to
\* the matrix passed as argument.
Assemble_jacobian(jacobian, JF0, xit, xi, alpha, W, Mg, bv, p, cf) ==
  LET start == IF jacobian = "JF" THEN ZeroMatrix ELSE JF0
  IN [ff |-> [r \in FluidDofs |-> [c \in FluidDofs |->
        start.ff[r][c]
        + SumOver([cl \in FluidCells |->
            distribute_jacobian(
              FluidPass(cl, xit, xi, alpha, TRUE, bv, p, cf).jac,
              get_dof_indices_f[cl], get_dof_indices_f[cl], 0, 0, r, c)
            + (IF PressureAverageConstraint(p, cf) /\ jacobian = "JF"
               THEN distribute_constraint_on_pressure_jac(
                      local_pressure_coefficient(cl, p, cf, TRUE),
                      get_dof_indices_f[cl], 0, r, c)
               ELSE 0)], FluidCells)]],
      fs |-> [r \in FluidDofs |-> [c \in SolidDofs |->
        start.fs[r][c]
        + SumOver([pr \in CouplingPairs(W) |->
            distribute_jacobian(
              CouplingPassV(pr[1], pr[2], W, xi, Mg, TRUE, bv, p, cf).jac,
              get_dof_indices_f[pr[2]], get_dof_indices_s[pr[1]],
              0, offset, r, c)], CouplingPairs(W))]],
      sf |-> [r \in SolidDofs |-> [c \in FluidDofs |->
        start.sf[r][c]
        + SumOver([pr \in CouplingPairs(W) |->
            distribute_jacobian(
              CouplingPassY(pr[1], pr[2], W, xi, TRUE, bv, p, cf).jac,
              get_dof_indices_s[pr[1]], get_dof_indices_f[pr[2]],
              offset, 0, r, c)], CouplingPairs(W))]],
      ss |-> [r \in SolidDofs |-> [c \in SolidDofs |->
        start.ss[r][c]
        + (IF ~p.semi_implicit
           THEN SumOver([pr \in CouplingPairs(W) |->
                  distribute_jacobian(
                    CouplingPassY(pr[1], pr[2], W, xi, TRUE, bv, p, cf).jac,
                    get_dof_indices_s[pr[1]], get_dof_indices_s[pr[1]],
                    offset, offset, r, c)], CouplingPairs(W))
           ELSE 0)
        + SumOver([cs \in SolidCells |->
            InertiaPasses(W, cs)
              * distribute_jacobian(inertia_jac(cs, alpha),
                                    get_dof_indices_s[cs], get_dof_indices_s[cs],
                                    offset, offset, r, c)], SolidCells)]]]

\* ------------------------------------------------------------------------
\* The sparsity pattern: a set of (row, column) per block.
\* ------------------------------------------------------------------------
\* DoFTools::make_sparsity_pattern (dh_f, coupling, csp.block(0,0)) with
\* every component coupled to every other, and the entries that relate the
\* first pressure dof to the other pressure dofs.
sparsity_ff ==
  {rc \in FluidDofs \X FluidDofs :
      \E cl \in FluidCells : \E i \in LocalF : \E j \in LocalF :
         get_dof_indices_f[cl][i] = rc[1] /\ get_dof_indices_f[cl][j] = rc[2]}
  \cup {<<constraining_dof, d>> : d \in pressure_dofs \ {constraining_dof}}

\* DoFTools::make_sparsity_pattern (dh_s, csp.block(1,1)).
sparsity_ss ==
  {rc \in SolidDofs \X SolidDofs :
      \E cs \in SolidCells : \E i \in LocalS : \E j \in LocalS :
         get_dof_indices_s[cs][i] = rc[1] /\ get_dof_indices_s[cs][j] = rc[2]}

\* sp1: the (fluid dof, solid dof) of the fluid cells that hold a
\* quadrature point of a solid cell displaced by W.
coupling_sp1(W) ==
  {rc \in FluidDofs \X SolidDofs :
      \E pr \in CouplingPairs(W) : \E i \in LocalF : \E j \in LocalS :
         /\ get_dof_indices_f[pr[2]][i] = rc[1]
         /\ get_dof_indices_s[pr[1]][j] = rc[2]}

\* sp2: the same entries, transposed.
coupling_sp2(W) == {<<rc[2], rc[1]>> : rc \in coupling_sp1(W)}

\* The entries of the new patterns added to the blocks at hand.
assemble_sparsity_add(sp, W) ==
  [sp EXCEPT !.fs = sp.fs \cup coupling_sp1(W),
             !.sf = sp.sf \cup coupling_sp2(W)]

\* The blocks left as the constructor built them.
assemble_sparsity_keep(sp, W) == sp

\* assemble_sparsity (immersed_mapping): sparsity.block(0,1) and (1,0) are
\* copied from two patterns built from scratch.
assemble_sparsity(sp, W) ==
  [sp EXCEPT !.fs = coupling_sp1(W), !.sf = coupling_sp2(W)]

\* The pattern after the constructor: the mapping refers to previous_xi.
InitialSparsity(prev) ==
  assemble_sparsity([ff |-> sparsity_ff, fs |-> {}, sf |-> {},
                     ss |-> sparsity_ss], prev.s)

\* The matrix passed as jacobian when it is not the member JF: it is
\* cleared, sized with the pattern, and receives the rows of the constraint
\* on the mean pressure, the only statements that name the argument.
Assemble_argument(xi, p, cf) ==
  [ZeroMatrix EXCEPT
     !.ff = [r \in FluidDofs |-> [c \in FluidDofs |->
        SumOver([cl \in FluidCells |->
           IF PressureAverageConstraint(p, cf)
           THEN distribute_constraint_on_pressure_jac(
                  local_pressure_coefficient(cl, p, cf, TRUE),
                  get_dof_indices_f[cl], 0, r, c)
           ELSE 0], FluidCells)]]]

\* The entries of M that lie in the pattern sp; the others are zero.
WithinPattern(M, sp) ==
  [ff |-> [r \in FluidDofs |-> [c \in FluidDofs |->
             IF <<r, c>> \in sp.ff THEN M.ff[r][c] ELSE 0]],
   fs |-> [r \in FluidDofs |-> [c \in SolidDofs |->
             IF <<r, c>> \in sp.fs THEN M.fs[r][c] ELSE 0]],
   sf |-> [r \in SolidDofs |-> [c \in FluidDofs |->
             IF <<r, c>> \in sp.sf THEN M.sf[r][c] ELSE 0]],
   ss |-> [r \in SolidDofs |-> [c \in SolidDofs |->
             IF <<r, c>> \in sp.ss THEN M.ss[r][c] ELSE 0]]]

\* No evaluation has been made.
NoCall == [jacobian |-> "none"]
NoResult == [residual |-> "none"]

\* ------------------------------------------------------------------------
\* State after the constructor (create_triangulation_and_dofs).
\* ------------------------------------------------------------------------
\* previous_xi holds the initial conditions with the boundary values of
\* t = 0 applied; current_xi is sized and zero; the first mapping refers to
\* previous_xi; JF has its sparsity pattern and no factorization exists.
Init ==
  /\ par \in Params
  /\ boundary_values = compute_current_bc(<<>>, par, 0)
  /\ \E xi0 \in {Uniform(v) : v \in Values} : previous_xi = apply_current_bc(xi0, boundary_values)
  /\ current_xi = ZeroVec
  /\ pc = "constructed"
  /\ time_step = 0
  /\ t = 0
  /\ nonlin_iter = 0
  /\ outer_nonlin_iter = 0
  /\ update_Jacobian = FALSE
  /\ res_norm = NoNorm
  /\ JF = "reinit"
  /\ JF_inv = "uninitialized"
  /\ mapping = NewAddr({})
  /\ mapping_src = "previous_xi"
  /\ alive = {NewAddr({})}
  /\ heap_faults = {}
  /\ n_solve = 0
  /\ n_output = 0
  /\ last_output = [t |-> -1, solution |-> ZeroVec, step |-> -1]
  /\ global_info_file = <<>>
  /\ last_eval = "none"
  /\ heap_log = <<"new">>
  /\ cfg = [use_spread |-> FALSE, all_DBC |-> FALSE,
            material_model |-> "INH_0", force |-> 0]
  /\ call = NoCall
  /\ n_calls = 0
  /\ residual = [f |-> ZeroVec.f, s |-> ZeroVec.s]
  /\ JF_values = ZeroMatrix
  /\ A_gamma = ZeroVec.s
  /\ M_gamma3_inv_A_gamma = ZeroVec.s
  /\ mapped_points = [cs \in SolidCells |-> [qs \in QuadS |-> 0]]
  /\ first_result = NoResult
  /\ sparsity = InitialSparsity(previous_xi)
  /\ K_values = ZeroMatrix
  /\ JF_inv_values = ZeroMatrix

\* ------------------------------------------------------------------------
\* run().
\* ------------------------------------------------------------------------
\* The statements before the loop over time.
RunBegin ==
  /\ pc = "constructed"
  /\ time_step' = 1
  /\ t' = 1
  /\ current_xi' = previous_xi
  /\ update_Jacobian' = TRUE
  /\ output_step(0, previous_xi, 0)
  /\ pc' = "loop_test"
  /\ UNCHANGED <<par, boundary_values, nonlin_iter, outer_nonlin_iter,
                 res_norm, previous_xi, JF, JF_inv, mapping, mapping_src,
                 alive, n_solve,
                 last_eval>>
  /\ UNCHANGED asm_vars

\* t <= par.T holds: the counters are declared and the boundary values of
\* the time of the step are imposed on current_xi.
StepBegin ==
  /\ pc = "loop_test"
  /\ t <= NSteps
  /\ nonlin_iter' = 0
  /\ outer_nonlin_iter' = 0
  /\ n_solve' = 0
  /\ res_norm' = NoNorm
  /\ boundary_values' = compute_current_bc(boundary_values, par, t)
  /\ current_xi' = apply_current_bc(current_xi, boundary_values')
  /\ pc' = "newton"
  /\ UNCHANGED <<par, time_step, t, update_Jacobian, previous_xi, JF, JF_inv,
                 mapping, mapping_src, alive, heap_faults, n_output,
                 last_output, global_info_file,
                 last_eval, heap_log>>
  /\ UNCHANGED asm_vars

\* t <= par.T fails: run() returns.
RunEnd ==
  /\ pc = "loop_test"
  /\ ~(t <= NSteps)
  /\ pc' = "done"
  /\ UNCHANGED <<par, boundary_values, time_step, t, nonlin_iter,
                 outer_nonlin_iter, update_Jacobian, res_norm, current_xi,
                 previous_xi, JF, JF_inv, mapping, mapping_src, alive,
                 heap_faults, n_solve, n_output, last_output, global_info_file,
                 last_eval, heap_log>>
  /\ UNCHANGED asm_vars

\* Head of the Newton loop with update_Jacobian set: residual and Jacobian.
EvaluateWithJacobian ==
  /\ pc = "newton"
  /\ update_Jacobian = TRUE
  /\ residual_and_or_Jacobian("JF", t)
  /\ res_norm' = NoNorm
  /\ pc' = "factor"
  /\ UNCHANGED <<par, time_step, t, nonlin_iter, outer_nonlin_iter,
                 update_Jacobian, current_xi, previous_xi, n_solve,
                 n_output, last_output, global_info_file>>
  /\ UNCHANGED asm_vars

\* The factorization without the reset of update_Jacobian.
Factor_keeps_flag ==
  /\ pc = "factor"
  /\ JF_inv' = "current"
  /\ pc' = "test"
  /\ UNCHANGED <<par, boundary_values, time_step, t, nonlin_iter,
                 outer_nonlin_iter, update_Jacobian, res_norm, current_xi,
                 previous_xi, JF, mapping, mapping_src, alive, heap_faults,
                 n_solve, n_output, last_output, global_info_file, last_eval, heap_log>>
  /\ UNCHANGED asm_vars

\* The flag reset without the factorization.
Factor_without_initialize ==
  /\ pc = "factor"
  /\ update_Jacobian' = par.update_jacobian_continuously
  /\ pc' = "test"
  /\ UNCHANGED <<par, boundary_values, time_step, t, nonlin_iter,
                 outer_nonlin_iter, res_norm, current_xi, previous_xi, JF,
                 JF_inv, mapping, mapping_src, alive, heap_faults, n_solve,
                 n_output, last_output, global_info_file,
                 last_eval, heap_log>>
  /\ UNCHANGED asm_vars

\* JF_inv.initialize (JF); update_Jacobian = par.update_jacobian_continuously.
Factor ==
  /\ pc = "factor"
  /\ JF_inv' = "current"
  /\ update_Jacobian' = par.update_jacobian_continuously
  /\ pc' = "test"
  /\ UNCHANGED <<par, boundary_values, time_step, t, nonlin_iter,
                 outer_nonlin_iter, res_norm, current_xi, previous_xi, JF,
                 mapping, mapping_src, alive, heap_faults, n_solve, n_output,
                 last_output, global_info_file,
                 last_eval, heap_log>>
  /\ UNCHANGED asm_vars

\* Head of the Newton loop with update_Jacobian clear: residual only.
EvaluateResidualOnly ==
  /\ pc = "newton"
  /\ update_Jacobian /= TRUE
  /\ residual_and_or_Jacobian("dummy_JF", t)
  /\ res_norm' = NoNorm
  /\ pc' = "test"
  /\ UNCHANGED <<par, time_step, t, nonlin_iter, outer_nonlin_iter,
                 update_Jacobian, current_xi, previous_xi, n_solve,
                 n_output, last_output, global_info_file>>
  /\ UNCHANGED asm_vars

\* The norm r of the residual is small: leave the Newton loop.
Converge(r) ==
  /\ pc = "test"
  /\ Converged(r)
  /\ res_norm' = r
  /\ pc' = "accepted"
  /\ UNCHANGED <<par, boundary_values, time_step, t, nonlin_iter,
                 outer_nonlin_iter, update_Jacobian, current_xi, previous_xi,
                 JF, JF_inv, mapping, mapping_src, alive, heap_faults,
                 n_solve, n_output, last_output, global_info_file,
                 last_eval, heap_log>>
  /\ UNCHANGED asm_vars

\* The norm r of the residual is not small: solve with the factorization at
\* hand, add the update, ask for a new Jacobian when r is poor; then
\* ++nonlin_iter, the test of the 15 iterations and the AssertThrow.
Iterate(r) ==
  /\ pc = "test"
  /\ ~Converged(r)
  /\ res_norm' = r
  /\ \E newton_update \in NewtonUpdates(current_xi) :
        current_xi' = VAdd(current_xi, newton_update)
  /\ n_solve' = SatInc(n_solve)
  /\ LET flag == IF PoorResidual(r) THEN TRUE ELSE update_Jacobian
     IN update_Jacobian' = FlagAfterCount(nonlin_iter + 1, flag)
  /\ nonlin_iter' = InnerAfterCount(nonlin_iter + 1)
  /\ outer_nonlin_iter' = OuterAfterCount(nonlin_iter + 1, outer_nonlin_iter)
  /\ pc' = IF WithinRetryBudget(outer_nonlin_iter') THEN "newton" ELSE "aborted"
  /\ UNCHANGED <<par, boundary_values, time_step, t, previous_xi, JF, JF_inv,
                 mapping, mapping_src, alive, heap_faults, n_output,
                 last_output, global_info_file,
                 last_eval, heap_log>>
  /\ UNCHANGED asm_vars

\* The accepted solution written to the output but not kept.
Commit_lost ==
  /\ pc = "accepted"
  /\ pc' = "output"
  /\ UNCHANGED <<par, boundary_values, time_step, t, nonlin_iter,
                 outer_nonlin_iter, update_Jacobian, res_norm, current_xi,
                 previous_xi, JF, JF_inv, mapping, mapping_src, alive,
                 heap_faults, n_solve, n_output, last_output,
                 global_info_file, last_eval, heap_log>>
  /\ UNCHANGED asm_vars

\* previous_xi = current_xi;
Commit ==
  /\ pc = "accepted"
  /\ previous_xi' = current_xi
  /\ pc' = "output"
  /\ UNCHANGED <<par, boundary_values, time_step, t, nonlin_iter,
                 outer_nonlin_iter, update_Jacobian, res_norm, current_xi, JF,
                 JF_inv, mapping, mapping_src, alive, heap_faults, n_solve,
                 n_output, last_output, global_info_file,
                 last_eval, heap_log>>
  /\ UNCHANGED asm_vars

\* output_step (t, current_xi, time_step, par.dt);
Output ==
  /\ pc = "output"
  /\ output_step(t, current_xi, time_step)
  /\ pc' = "policy"
  /\ UNCHANGED <<par, boundary_values, time_step, t, nonlin_iter,
                 outer_nonlin_iter, update_Jacobian, res_norm, current_xi,
                 previous_xi, JF, JF_inv, mapping, mapping_src, alive,
                 n_solve,
                 last_eval>>
  /\ UNCHANGED asm_vars

\* The Jacobian policy of the next step, then t += par.dt, ++time_step.
StepEnd ==
  /\ pc = "policy"
  /\ update_Jacobian' = PolicyAtAcceptance(par)
  /\ t' = t + 1
  /\ time_step' = time_step + 1
  /\ res_norm' = NoNorm
  /\ pc' = "loop_test"
  /\ UNCHANGED <<par, boundary_values, nonlin_iter, outer_nonlin_iter,
                 current_xi, previous_xi, JF, JF_inv, mapping, mapping_src,
                 alive, heap_faults, n_solve, n_output, last_output, global_info_file,
                 last_eval, heap_log>>
  /\ UNCHANGED asm_vars

\* ~ImmersedFEM: if (mapping) delete mapping.  The object is destroyed
\* before run(), after run() returned, or while the exception of the
\* AssertThrow unwinds.
Destructor ==
  /\ pc \in {"constructed", "done", "aborted"}
  /\ alive' = IF mapping /= NULL THEN FreeAddr(mapping, alive) ELSE alive
  /\ heap_faults' = heap_faults \cup
                    (IF mapping /= NULL THEN DeleteFaults(mapping, alive) ELSE {})
  /\ heap_log' = IF mapping /= NULL THEN <<"delete">> ELSE <<>>
  /\ pc' = "destroyed"
  /\ UNCHANGED <<par, boundary_values, time_step, t, nonlin_iter,
                 outer_nonlin_iter, update_Jacobian, res_norm, current_xi,
                 previous_xi, JF, JF_inv, mapping, mapping_src, n_solve,
                 n_output, last_output, global_info_file, last_eval>>
  /\ UNCHANGED asm_vars

Next ==
  \/ RunBegin
  \/ StepBegin
  \/ RunEnd
  \/ EvaluateWithJacobian
  \/ Factor
  \/ EvaluateResidualOnly
  \/ \E r \in ResNorms : Converge(r)
  \/ \E r \in ResNorms : Iterate(r)
  \/ Commit
  \/ Output
  \/ StepEnd
  \/ Destructor

Spec == Init /\ [][Next]_vars

\* The driver is sequential code: a step that is enabled is taken.
FairSpec == Spec /\ WF_vars(Next)

TypeOK ==
  /\ par \in Params
  /\ pc \in {"constructed", "loop_test", "newton", "factor", "test",
             "accepted", "output", "policy", "done", "aborted", "destroyed"}
  /\ nonlin_iter \in 0 .. InnerCap
  /\ outer_nonlin_iter \in 0 .. OuterCap + 1
  /\ update_Jacobian \in BOOLEAN
  /\ res_norm \in ResNorms \cup {NoNorm}
  /\ current_xi \in Vecs
  /\ previous_xi \in Vecs
  /\ JF \in {"reinit", "assembled"}
  /\ JF_inv \in {"uninitialized", "stale", "current"}
  /\ mapping \in MappingIds \cup {NULL}
  /\ alive \subseteq MappingIds

\* ------------------------------------------------------------------------
\* residual_and_or_Jacobian called on a constructed object: the values it
\* assembles.
\* ------------------------------------------------------------------------
\* The trial states and the rates passed to the evaluation: the zero vector
\* and the multiples of a vector with a moving boundary dof, a pressure and
\* a displacement of the solid that carries quadrature points to another
\* fluid cell or out of the fluid mesh.
Pattern == [f |-> [d \in FluidDofs |-> IF d \in {0, 1, 3, 5} THEN 1 ELSE 0],
            s |-> [d \in SolidDofs |-> 1]]
AsmInputs == {[f |-> [d \in FluidDofs |-> v * Pattern.f[d]],
               s |-> [d \in SolidDofs |-> v * Pattern.s[d]]] : v \in Values}

\* The outputs of an evaluation, as a record.
Outputs == [residual |-> residual,
            JF_values |-> JF_values,
            A_gamma |-> A_gamma,
            M_gamma3_inv_A_gamma |-> M_gamma3_inv_A_gamma,
            boundary_values |-> boundary_values,
            mapped_points |-> mapped_points]

\* The values assembled by residual_and_or_Jacobian (residual, jacobian,
\* xit, xi, alpha, tt).
Assemble(jacobian, xit, xi, alpha, tt) ==
  LET update_jacobian == ~MatrixEmpty(jacobian)
      W  == MappingField(par, previous_xi, xi)
      bv == compute_current_bc(boundary_values, par, tt)
      Ag == Assemble_A_gamma(A_gamma, xi, cfg)
      Mg == M_gamma3_inv_solve(Ag)
  IN /\ mapped_points' =
          [cs \in SolidCells |->
             [qs \in QuadS |-> mapped_quadrature_point(W, cs, qs)]]
     /\ A_gamma' = Ag
     /\ M_gamma3_inv_A_gamma' = Mg
     /\ residual' =
          [f |-> Assemble_residual_f(residual.f, xit, xi, alpha,
                                     update_jacobian, W, Mg, bv, par, cfg),
           s |-> Assemble_residual_s(residual.s, xit, xi, update_jacobian,
                                     W, bv, par, cfg)]
     /\ sparsity' = IF update_jacobian THEN assemble_sparsity(sparsity, W)
                     ELSE sparsity
     /\ K_values' = IF update_jacobian /\ jacobian /= "JF"
                     THEN Assemble_argument(xi, par, cfg)
                     ELSE K_values
     /\ JF_values' \in
          IF ~update_jacobian THEN {JF_values}
          ELSE LET acc == Assemble_jacobian(jacobian, JF_values, xit, xi,
                                            alpha, W, Mg, bv, par, cfg)
               IN IF jacobian = "JF" \/ sparsity' = sparsity
                  THEN {acc}
                  ELSE {acc, WithinPattern(acc, sparsity)}

\* The state of a constructed object: the parameters are read, the
\* initial conditions are in previous_xi with the boundary values of t = 0,
\* JF is sized and zero, A_gamma and M_gamma3_inv_A_gamma are sized.
AsmInit ==
  /\ par \in {p \in Params : /\ ~p.update_jacobian_continuously
                             /\ ~p.update_jacobian_at_step_beginning}
  /\ cfg \in Configs
  /\ boundary_values = compute_current_bc(<<>>, par, 0)
  /\ \E xi0 \in AsmInputs :
        previous_xi = apply_current_bc(xi0, boundary_values)
  /\ current_xi = ZeroVec
  /\ pc = "constructed"
  /\ time_step = 1
  /\ t = 1
  /\ nonlin_iter = 0
  /\ outer_nonlin_iter = 0
  /\ update_Jacobian = FALSE
  /\ res_norm = NoNorm
  /\ JF = "reinit"
  /\ JF_inv = "uninitialized"
  /\ mapping = NewAddr({})
  /\ mapping_src = "previous_xi"
  /\ alive = {NewAddr({})}
  /\ heap_faults = {}
  /\ n_solve = 0
  /\ n_output = 0
  /\ last_output = [t |-> -1, solution |-> ZeroVec, step |-> -1]
  /\ global_info_file = <<>>
  /\ last_eval = "none"
  /\ heap_log = <<"new">>
  /\ call = NoCall
  /\ n_calls = 0
  /\ residual = [f |-> ZeroVec.f, s |-> ZeroVec.s]
  /\ JF_values = ZeroMatrix
  /\ A_gamma = ZeroVec.s
  /\ M_gamma3_inv_A_gamma = ZeroVec.s
  /\ mapped_points = [cs \in SolidCells |-> [qs \in QuadS |-> 0]]
  /\ first_result = NoResult
  /\ sparsity = InitialSparsity(previous_xi)
  /\ K_values = ZeroMatrix
  /\ JF_inv_values = ZeroMatrix

\* The first call: residual_and_or_Jacobian (residual, jacobian, xit, xi,
\* alpha, t) with the matrices run() passes: JF with alpha = 1/dt, or the
\* empty dummy_JF with alpha = 0.
AsmEvaluate(jacobian, xit, xi) ==
  /\ n_calls = 0
  /\ LET alpha == IF jacobian = "JF" THEN InvDt ELSE 0
     IN /\ call' = [jacobian |-> jacobian, xit |-> xit, xi |-> xi,
                    alpha |-> alpha, t |-> t]
        /\ residual_and_or_Jacobian(jacobian, t)
        /\ Assemble(jacobian, xit, xi, alpha, t)
  /\ n_calls' = 1
  /\ first_result' = NoResult
  /\ UNCHANGED <<par, cfg, pc, time_step, t, nonlin_iter, outer_nonlin_iter,
                 update_Jacobian, res_norm, current_xi, previous_xi, n_solve,
                 n_output, last_output, global_info_file, JF_inv_values>>

\* The same call made again, nothing changed in between.
AsmEvaluateAgain ==
  /\ n_calls = 1
  /\ residual_and_or_Jacobian(call.jacobian, call.t)
  /\ Assemble(call.jacobian, call.xit, call.xi, call.alpha, call.t)
  /\ n_calls' = 2
  /\ first_result' = Outputs
  /\ UNCHANGED <<par, cfg, pc, time_step, t, nonlin_iter, outer_nonlin_iter,
                 update_Jacobian, res_norm, current_xi, previous_xi, n_solve,
                 n_output, last_output, global_info_file, call,
                 JF_inv_values>>

AsmNext ==
  \/ \E jacobian \in {"JF", "dummy_JF"}, xit \in {ZeroVec, Uniform(1)}, xi \in AsmInputs :
        AsmEvaluate(jacobian, xit, xi)
  \/ AsmEvaluateAgain

AsmSpec == AsmInit /\ [][AsmNext]_vars

\* ------------------------------------------------------------------------
\* residual_and_or_Jacobian called with a non-empty matrix that may be
\* another one than the member JF (named K here).
\* ------------------------------------------------------------------------
\* Number of calls made on the constructed object.
MaxCalls == 2

\* A constructed object without body force, direct form of the coupling.
ArgInit ==
  /\ AsmInit
  /\ cfg.force = 0
  /\ ~cfg.use_spread

\* residual_and_or_Jacobian (residual, jacobian, xit, xi, 1/dt, t) with
\* xit = 0 and jacobian a non-empty matrix.
ArgEvaluate(jacobian, xi) ==
  /\ n_calls < MaxCalls
  /\ call' = [jacobian |-> jacobian, xit |-> ZeroVec, xi |-> xi,
              alpha |-> InvDt, t |-> t]
  /\ residual_and_or_Jacobian(jacobian, t)
  /\ Assemble(jacobian, ZeroVec, xi, InvDt, t)
  /\ n_calls' = n_calls + 1
  /\ first_result' = NoResult
  /\ UNCHANGED <<par, cfg, pc, time_step, t, nonlin_iter, outer_nonlin_iter,
                 update_Jacobian, res_norm, current_xi, previous_xi, n_solve,
                 n_output, last_output, global_info_file, JF_inv_values>>

ArgNext ==
  \E jacobian \in {"JF", "K"}, xi \in AsmInputs : ArgEvaluate(jacobian, xi)

ArgSpec == ArgInit /\ [][ArgNext]_vars

\* ------------------------------------------------------------------------
\* run() with the values assembled by residual_and_or_Jacobian and an
\* exact linear solve (specification StepSpec).
\* ------------------------------------------------------------------------
\* Linear solves explored per time step.
NewtonCap == 2

\* The largest r with r * r <= n.
FloorSqrt(n) == CHOOSE r \in 0 .. n : r * r <= n /\ n < (r + 1) * (r + 1)

\* One unit of the entries of the residual, in units of 1e-11.
ResidualUnit == 2

\* current_res.l2_norm() in units of 1e-11, rounded down to a whole number.
l2_norm(res) ==
  FloorSqrt(ResidualUnit * ResidualUnit
            * (SumOver([d \in FluidDofs |-> res.f[d] * res.f[d]], FluidDofs)
               + SumOver([d \in SolidDofs |-> res.s[d] * res.s[d]],
                         SolidDofs)))

\* JF_inv.solve (rhs): the rows of the system M du = rhs that belong to
\* the dofs of the map of the boundary values, which an exact solve
\* satisfies along with all the others.
SolvesRows(M, du, rhs, rows) ==
  \A r \in rows \cap FluidDofs :
     SumOver([c \in FluidDofs |-> M.ff[r][c] * du.f[c]], FluidDofs)
     + SumOver([c \in SolidDofs |-> M.fs[r][c] * du.s[c]], SolidDofs)
       = rhs.f[r]

\* du with the entries of the fluid dofs in D set to zero.
ZeroOn(du, D) ==
  [f |-> [d \in FluidDofs |-> IF d \in D THEN 0 ELSE du.f[d]], s |-> du.s]

\* The updates explored: those that bring the state x to the zero vector
\* to Pattern or to Uniform(1), and the same with no change on the boundary dofs, or on
\* the boundary dofs and the first pressure dof.
ExploredUpdates(x) ==
  LET full == {VSub(y, x) : y \in {ZeroVec, Pattern, Uniform(1)}}
  IN full \cup {ZeroOn(du, BoundaryDofs) : du \in full}
          \cup {ZeroOn(du, BoundaryDofs \cup {constraining_dof}) : du \in full}

\* State after the constructor, as in Init, for the parameters and the
\* initial conditions of the runs explored.
StepInit ==
  /\ par \in {p \in Params : ~p.update_jacobian_at_step_beginning}
  /\ cfg \in {cf \in Configs : ~cf.use_spread /\ cf.force = 0}
  /\ boundary_values = compute_current_bc(<<>>, par, 0)
  /\ \E xi0 \in {ZeroVec, Pattern} :
        previous_xi = apply_current_bc(xi0, boundary_values)
  /\ current_xi = ZeroVec
  /\ pc = "constructed"
  /\ time_step = 0
  /\ t = 0
  /\ nonlin_iter = 0
  /\ outer_nonlin_iter = 0
  /\ update_Jacobian = FALSE
  /\ res_norm = NoNorm
  /\ JF = "reinit"
  /\ JF_inv = "uninitialized"
  /\ mapping = NewAddr({})
  /\ mapping_src = "previous_xi"
  /\ alive = {NewAddr({})}
  /\ heap_faults = {}
  /\ n_solve = 0
  /\ n_output = 0
  /\ last_output = [t |-> -1, solution |-> ZeroVec, step |-> -1]
  /\ global_info_file = <<>>
  /\ last_eval = "none"
  /\ heap_log = <<"new">>
  /\ call = NoCall
  /\ n_calls = 0
  /\ residual = [f |-> ZeroVec.f, s |-> ZeroVec.s]
  /\ JF_values = ZeroMatrix
  /\ A_gamma = ZeroVec.s
  /\ M_gamma3_inv_A_gamma = ZeroVec.s
  /\ mapped_points = [cs \in SolidCells |-> [qs \in QuadS |-> 0]]
  /\ first_result = NoResult
  /\ sparsity = InitialSparsity(previous_xi)
  /\ K_values = ZeroMatrix
  /\ JF_inv_values = ZeroMatrix

\* Head of the Newton loop with update_Jacobian set:
\* residual_and_or_Jacobian (current_res, JF, current_xit, current_xi,
\* 1./par.dt, t).
NewtonEvaluateWithJacobian ==
  /\ pc = "newton"
  /\ update_Jacobian = TRUE
  /\ call' = [jacobian |-> "JF", xit |-> current_xit, xi |-> current_xi,
              alpha |-> InvDt, t |-> t]
  /\ residual_and_or_Jacobian("JF", t)
  /\ Assemble("JF", current_xit, current_xi, InvDt, t)
  /\ n_calls' = 1
  /\ res_norm' = NoNorm
  /\ pc' = "factor"
  /\ UNCHANGED <<par, cfg, time_step, t, nonlin_iter, outer_nonlin_iter,
                 update_Jacobian, current_xi, previous_xi, n_solve,
                 n_output, last_output, global_info_file, first_result,
                 JF_inv_values>>

\* JF_inv.initialize (JF); update_Jacobian = par.update_jacobian_continuously.
NewtonFactor ==
  /\ pc = "factor"
  /\ JF_inv' = "current"
  /\ JF_inv_values' = JF_values
  /\ update_Jacobian' = par.update_jacobian_continuously
  /\ pc' = "test"
  /\ UNCHANGED <<par, cfg, boundary_values, time_step, t, nonlin_iter,
                 outer_nonlin_iter, res_norm, current_xi, previous_xi, JF,
                 mapping, mapping_src, alive, heap_faults, n_solve, n_output,
                 last_output, global_info_file, last_eval, heap_log, call,
                 n_calls, residual, JF_values, A_gamma, M_gamma3_inv_A_gamma,
                 mapped_points, first_result, sparsity, K_values>>

\* Head of the Newton loop with update_Jacobian clear:
\* residual_and_or_Jacobian (current_res, dummy_JF, current_xit, current_xi,
\* 0, t).
NewtonEvaluateResidualOnly ==
  /\ pc = "newton"
  /\ update_Jacobian /= TRUE
  /\ call' = [jacobian |-> "dummy_JF", xit |-> current_xit,
              xi |-> current_xi, alpha |-> 0, t |-> t]
  /\ residual_and_or_Jacobian("dummy_JF", t)
  /\ Assemble("dummy_JF", current_xit, current_xi, 0, t)
  /\ n_calls' = 1
  /\ res_norm' = NoNorm
  /\ pc' = "test"
  /\ UNCHANGED <<par, cfg, time_step, t, nonlin_iter, outer_nonlin_iter,
                 update_Jacobian, current_xi, previous_xi, n_solve,
                 n_output, last_output, global_info_file, first_result,
                 JF_inv_values>>

\* The norm of the residual is small: leave the Newton loop.
NewtonConverge ==
  /\ pc = "test"
  /\ Converged(l2_norm(residual))
  /\ res_norm' = l2_norm(residual)
  /\ pc' = "accepted"
  /\ UNCHANGED <<par, boundary_values, time_step, t, nonlin_iter,
                 outer_nonlin_iter, update_Jacobian, current_xi, previous_xi,
                 JF, JF_inv, mapping, mapping_src, alive, heap_faults,
                 n_solve, n_output, last_output, global_info_file,
                 last_eval, heap_log>>
  /\ UNCHANGED asm_vars

\* The norm of the residual is not small: current_res *= -1, the update is
\* the solution of the system of the matrix JF_inv was initialized with,
\* current_xi.add (1., newton_update); then the test of the poor residual,
\* ++nonlin_iter, the test of the 15 iterations and the AssertThrow.
NewtonIterate ==
  /\ pc = "test"
  /\ ~Converged(l2_norm(residual))
  /\ n_solve < NewtonCap
  /\ res_norm' = l2_norm(residual)
  /\ residual' = [f |-> [d \in FluidDofs |-> 0 - residual.f[d]],
                   s |-> [d \in SolidDofs |-> 0 - residual.s[d]]]
  /\ \E newton_update \in ExploredUpdates(current_xi) :
        /\ SolvesRows(JF_inv_values, newton_update, residual',
                      DOMAIN boundary_values)
        /\ current_xi' = VAdd(current_xi, newton_update)
  /\ n_solve' = SatInc(n_solve)
  /\ LET flag == IF PoorResidual(l2_norm(residual)) THEN TRUE
                 ELSE update_Jacobian
     IN update_Jacobian' = FlagAfterCount(nonlin_iter + 1, flag)
  /\ nonlin_iter' = InnerAfterCount(nonlin_iter + 1)
  /\ outer_nonlin_iter' = OuterAfterCount(nonlin_iter + 1, outer_nonlin_iter)
  /\ pc' = IF WithinRetryBudget(outer_nonlin_iter') THEN "newton" ELSE "aborted"
  /\ UNCHANGED <<par, boundary_values, time_step, t, previous_xi, JF, JF_inv,
                 mapping, mapping_src, alive, heap_faults, n_output,
                 last_output, global_info_file, last_eval, heap_log>>
  /\ UNCHANGED <<cfg, call, n_calls, JF_values, A_gamma,
                 M_gamma3_inv_A_gamma, mapped_points, first_result, sparsity,
                 K_values, JF_inv_values>>

StepNext ==
  \/ RunBegin
  \/ StepBegin
  \/ RunEnd
  \/ NewtonEvaluateWithJacobian
  \/ NewtonFactor
  \/ NewtonEvaluateResidualOnly
  \/ NewtonConverge
  \/ NewtonIterate
  \/ Commit
  \/ Output
  \/ StepEnd

StepSpec == StepInit /\ [][StepNext]_vars

\* ------------------------------------------------------------------------
\* Properties of the Newton driver.
\* ------------------------------------------------------------------------
InNewtonLoop == pc \in {"newton", "factor", "test"}

\* C1: a step is accepted exactly on an evaluation whose residual norm is
\* strictly below 1e-10: the norm test leads to acceptance iff the norm is
\* below the tolerance, acceptance is reached from the norm test only, the
\* accepting evaluation makes no solve and leaves the state as it is, and
\* the commit of a step is reached through acceptance only.
C1_AcceptedIffBelowTolerance ==
  [][ /\ (pc = "test" /\ pc' /= "test") =>
            /\ res_norm' \in ResNorms
            /\ (pc' = "accepted") <=> (res_norm' < ResTol)
      /\ (pc' = "accepted" /\ pc /= "accepted") =>
            /\ pc = "test"
            /\ n_solve' = n_solve
            /\ current_xi' = current_xi
            /\ previous_xi' = previous_xi
            /\ JF_inv' = JF_inv
      /\ (pc' = "output" /\ pc /= "output") => pc = "accepted"
    ]_vars

\* C1 witness: a step accepted after at least one non-converged iteration.
C1_Witness ==
  pc = "accepted" /\ res_norm = ResTol - 1 /\ n_solve > 0

\* C2: the run is aborted exactly when the outer counter exceeds 3 (the
\* Newton loop never runs with the counter above 3, and never aborts with
\* it at 3 or below), and after the abort nothing but the destruction of
\* the object happens: no evaluation, no solve, no output, no time step.
C2_AbortIffOuterExceeds3 ==
  /\ [](pc = "aborted" => outer_nonlin_iter > OuterCap)
  /\ [](outer_nonlin_iter > OuterCap => pc \in {"aborted", "destroyed"})
  /\ [][ pc = "aborted" =>
           /\ pc' \in {"aborted", "destroyed"}
           /\ UNCHANGED <<time_step, t, n_solve, n_output, current_xi,
                          previous_xi, JF, JF_inv, last_eval, nonlin_iter,
                          outer_nonlin_iter>>
       ]_vars

\* C2 witness: the run aborted with the outer counter at 4.
C2_Witness ==
  pc = "aborted" /\ outer_nonlin_iter = OuterCap + 1

\* C3 (as claimed): within one time step at most 15 x 3 = 45 linear solves
\* are made.
C3_AtMost45Solves == n_solve <= InnerCap * OuterCap

\* C4: the Newton loop of every time step terminates: from the head of the
\* loop the run reaches the acceptance of the step or the no-convergence
\* abort, whatever the residual norms are (checked under FairSpec: every
\* evaluation and every solve returns).
C4_NewtonLoopTerminates ==
  InNewtonLoop ~> (pc \in {"accepted", "aborted"})

\* C4 witness: a step accepted in its last cycle, after more than 45 solves.
C4_Witness ==
  pc = "accepted" /\ outer_nonlin_iter = OuterCap /\ n_solve > InnerCap * OuterCap

\* C5: both counters start at 0 in every time step; the counters count the
\* non-converged iterations of the step (n_solve = 15 * outer + inner); an
\* iteration that completes a run of 15 forces the Jacobian flag, resets
\* the inner counter and adds exactly 1 to the outer counter, and any other
\* iteration adds 1 to the inner counter and leaves the outer one alone;
\* the outer counter changes nowhere else within a step.
C5_StallEveryFifteen ==
  /\ [](InNewtonLoop =>
          /\ nonlin_iter \in 0 .. InnerCap - 1
          /\ n_solve = InnerCap * outer_nonlin_iter + nonlin_iter)
  /\ [][ /\ (pc = "loop_test" /\ pc' = "newton") =>
               (nonlin_iter' = 0 /\ outer_nonlin_iter' = 0)
         /\ (pc = "test" /\ pc' \in {"newton", "aborted"}) =>
               IF nonlin_iter = InnerCap - 1
                 THEN /\ update_Jacobian' = TRUE
                      /\ nonlin_iter' = 0
                      /\ outer_nonlin_iter' = outer_nonlin_iter + 1
                 ELSE /\ nonlin_iter' = nonlin_iter + 1
                      /\ outer_nonlin_iter' = outer_nonlin_iter
         /\ (outer_nonlin_iter' /= outer_nonlin_iter) =>
               \/ pc = "test" /\ nonlin_iter = InnerCap - 1
               \/ pc = "loop_test" /\ outer_nonlin_iter' = 0
       ]_vars

\* C5 witness: the head of the loop right after the first stall of a step
\* whose last norm was not poor: the flag is set by the stall alone.
C5_Witness ==
  /\ pc = "newton"
  /\ nonlin_iter = 0
  /\ outer_nonlin_iter = 1
  /\ res_norm \in {ResTol, ResPoor}
  /\ ~par.update_jacobian_continuously
  /\ update_Jacobian = TRUE

\* C6: after a non-converged evaluation with a norm above 1e-2 the next
\* evaluation of the same step is made with the Jacobian, which is then
\* factored, whatever update_jacobian_continuously is.  At the head of the
\* loop res_norm is the norm of the previous evaluation of the step.
C6_PoorResidualForcesJacobian ==
  /\ []((pc = "newton" /\ res_norm > ResPoor) => update_Jacobian = TRUE)
  /\ [][ /\ (pc = "newton" /\ res_norm > ResPoor) =>
               (pc' = "factor" /\ last_eval' = "JF" /\ JF' = "assembled")
         /\ (pc = "factor") => (pc' = "test" /\ JF_inv' = "current")
       ]_vars

\* C6 witness: a poor norm in the middle of a cycle without continuous
\* update: the flag is set by the norm alone.
C6_Witness ==
  /\ pc = "newton"
  /\ res_norm = ResPoor + 1
  /\ nonlin_iter \in 1 .. InnerCap - 1
  /\ ~par.update_jacobian_continuously
  /\ update_Jacobian = TRUE

\* A refresh of the Jacobian was forced since the last evaluation of the
\* step: its norm was poor, or the iteration after it completed a cycle.
RefreshForced ==
  \/ res_norm > ResPoor
  \/ (nonlin_iter = 0 /\ outer_nonlin_iter > 0)

\* An evaluation with the Jacobian is followed by the factorization before
\* anything else, and no norm test or solve sees a stale factorization.
FactoredBeforeSolve ==
  /\ [](pc = "test" => JF_inv = "current")
  /\ [][ /\ (pc = "newton" /\ last_eval' = "JF") => pc' = "factor"
         /\ (pc = "factor") =>
               (pc' = "test" /\ JF_inv' = "current" /\ n_solve' = n_solve)
       ]_vars

\* C7 (as claimed): an evaluation with the Jacobian is factored at once, and
\* the evaluation after it is residual-only unless
\* update_jacobian_continuously is set or a refresh was forced in between.
C7_ResidualOnlyAfterJacobian ==
  /\ FactoredBeforeSolve
  /\ [][ (/\ pc = "newton"
          /\ last_eval = "JF"
          /\ ~par.update_jacobian_continuously
          /\ ~RefreshForced)
         => (pc' = "test" /\ last_eval' = "dummy_JF")
       ]_vars

\* C7 (amended): as claimed, with one more exception: the step was accepted
\* in between (the evaluation is the first one of a step) and
\* update_jacobian_at_step_beginning is set.
C7_ResidualOnlyAfterJacobianWithinStep ==
  /\ FactoredBeforeSolve
  /\ [][ (/\ pc = "newton"
          /\ last_eval = "JF"
          /\ ~par.update_jacobian_continuously
          /\ ~RefreshForced
          /\ ~(n_solve = 0 /\ par.update_jacobian_at_step_beginning))
         => (pc' = "test" /\ last_eval' = "dummy_JF")
       ]_vars

\* C7 witness: the second evaluation of the first step (the first one is
\* always made with the Jacobian) made residual-only.
C7_Witness ==
  /\ pc = "test"
  /\ time_step = 1
  /\ n_solve = 1
  /\ last_eval = "dummy_JF"
  /\ JF_inv = "current"

\* C8: at the acceptance of a step, in this order: previous_xi becomes
\* current_xi; output_step is called once with (t, current_xi, time_step);
\* update_Jacobian becomes update_jacobian_continuously, or true when
\* update_jacobian_at_step_beginning is set, whatever it was.  So with
\* update_jacobian_at_step_beginning the first evaluation of every step is
\* made with the Jacobian, and one line is logged per accepted step.
C8_AcceptanceSequence ==
  /\ []((pc = "newton" /\ n_solve = 0 /\ par.update_jacobian_at_step_beginning)
          => update_Jacobian = TRUE)
  /\ [](pc = "loop_test" => n_output = time_step)
  /\ [][ /\ (pc = "accepted") =>
               /\ pc' = "output"
               /\ previous_xi' = current_xi
               /\ UNCHANGED <<current_xi, n_output, last_output,
                              update_Jacobian, time_step, t>>
         /\ (pc = "output") =>
               /\ pc' = "policy"
               /\ previous_xi = current_xi
               /\ n_output' = n_output + 1
               /\ last_output' = [t |-> t, solution |-> current_xi,
                                  step |-> time_step]
               /\ UNCHANGED <<current_xi, previous_xi, update_Jacobian,
                              time_step, t>>
         /\ (pc = "policy") =>
               /\ pc' = "loop_test"
               /\ update_Jacobian' = (par.update_jacobian_at_step_beginning
                                      \/ par.update_jacobian_continuously)
               /\ UNCHANGED <<current_xi, previous_xi, n_output, last_output>>
       ]_vars

\* C8 witness: the second step about to start with the flag forced by
\* update_jacobian_at_step_beginning alone, after a step that moved the state.
C8_Witness ==
  /\ pc = "loop_test"
  /\ time_step = 2
  /\ par.update_jacobian_at_step_beginning
  /\ ~par.update_jacobian_continuously
  /\ update_Jacobian = TRUE
  /\ n_output = 2
  /\ last_output.step = 1
  /\ last_output.solution = previous_xi
  /\ previous_xi /= ZeroVec

\* The value prescribed at time tt on the dof d of the boundary-value map.
Prescribed(d, tt) == IF d \in BoundaryDofs THEN u_g(d, tt) ELSE 0

\* C9: on entering a time step, before its first evaluation, every dof of
\* the boundary-value map (the boundary dofs, and the first pressure dof
\* with value 0 when fix_pressure is set) holds in the fluid block of
\* current_xi the value prescribed for the time of the step; the other
\* fluid dofs and the solid block keep their values; evaluations are made
\* only after that.
C9_BoundaryValuesAtStepEntry ==
  [][ /\ (pc = "loop_test" /\ pc' /= "loop_test") =>
            \/ pc' = "done"
            \/ /\ pc' = "newton"
               /\ DOMAIN boundary_values' =
                    BoundaryDofs \cup
                    (IF par.fix_pressure THEN {constraining_dof} ELSE {})
               /\ \A d \in DOMAIN boundary_values' :
                     /\ boundary_values'[d] = Prescribed(d, t)
                     /\ current_xi'.f[d] = Prescribed(d, t)
               /\ \A d \in FluidDofs \ DOMAIN boundary_values' :
                     current_xi'.f[d] = current_xi.f[d]
               /\ current_xi'.s = current_xi.s
               /\ last_eval' = last_eval
      /\ (last_eval' /= last_eval) => pc = "newton"
    ]_vars

\* C9 witness: the second step entered with fix_pressure: the boundary dof
\* and the pressure dof hold their prescribed values, which differ from the
\* value the solid block kept.
C9_Witness ==
  /\ pc = "newton"
  /\ n_solve = 0
  /\ time_step = 2
  /\ par.fix_pressure
  /\ current_xi.f[0] = u_g(0, 2)
  /\ current_xi.f[constraining_dof] = 0
  /\ current_xi.s[0] /= 0
  /\ previous_xi.f[0] /= current_xi.f[0]

\* C10: the simulation owns one mapping: until the destructor exactly one
\* mapping object is alive and it is the one `mapping' points to; every
\* evaluation deletes it and builds a new one before using it; no delete
\* or use ever hits a destroyed object; after the destructor none is left.
C10_MappingSingleOwner ==
  /\ [](heap_faults = {})
  /\ [](pc /= "destroyed" => (alive = {mapping} /\ mapping /= NULL))
  /\ [](pc = "destroyed" => alive = {})
  /\ [][ (pc = "newton" /\ pc' /= "newton") =>
            /\ Len(heap_log') >= 3
            /\ heap_log'[1] = "delete"
            /\ heap_log'[2] = "new"
            /\ \A i \in 3 .. Len(heap_log') : heap_log'[i] = "use"
            /\ mapping_src' = MappingSource(par)
       ]_vars

\* C10 witness: the object destroyed after a run that made evaluations and
\* wrote output: no mapping is left.
C10_Witness ==
  /\ pc = "destroyed"
  /\ alive = {}
  /\ last_eval /= "none"
  /\ n_output > 1

\* ------------------------------------------------------------------------
\* C11 (as stated).  Every evaluation made by the Newton driver destroys and
\* rebuilds the Jacobian: each evaluation at the head of the Newton loop is
\* the one that is passed JF, and it goes on to the factorization.
C11_JacobianRebuiltEveryEvaluation ==
  [][(pc = "newton" /\ pc' /= "newton")
       => (last_eval' = "JF" /\ JF' = "assembled" /\ pc' = "factor")]_vars

\* C11 (amended).  The Jacobian is destroyed and rebuilt at the start of the
\* evaluations the Newton driver makes with update_Jacobian set, and only of
\* those: a residual-only evaluation leaves the Jacobian and its
\* factorization as they are.  The Jacobian is recomputed at every Newton
\* iteration when update_jacobian_continuously is set, with or without the
\* semi-implicit scheme.
C11_JacobianRebuiltWhenRequested ==
  [][/\ (pc = "newton" /\ pc' /= "newton")
          => IF update_Jacobian
             THEN /\ last_eval' = "JF"
                  /\ JF' = "assembled"
                  /\ JF_inv' /= "current"
                  /\ pc' = "factor"
             ELSE /\ last_eval' = "dummy_JF"
                  /\ JF' = JF
                  /\ JF_inv' = JF_inv
                  /\ pc' = "test"
     /\ (par.update_jacobian_continuously /\ pc' = "newton")
          => update_Jacobian'
    ]_vars

\* A residual-only evaluation has been made, without the semi-implicit
\* scheme, after the first iteration of a step: the Jacobian assembled
\* earlier and its factorization are still the ones in use.
C11_Witness ==
  /\ pc = "test"
  /\ last_eval = "dummy_JF"
  /\ ~par.semi_implicit
  /\ ~par.update_jacobian_continuously
  /\ nonlin_iter >= 1
  /\ JF = "assembled"
  /\ JF_inv = "current"

\* ------------------------------------------------------------------------
\* C17 (as stated).  When run() returns after N accepted time steps the log
\* holds exactly N lines.
C17_OneLinePerAcceptedStep ==
  pc = "done" => Len(global_info_file) = time_step - 1

\* C17 (amended).  output_step appends exactly one line per call, made of
\* the time, the flux, the area and the center in that order; the log holds
\* one line for the initial conditions and one line per accepted time step:
\* N + 1 lines after N accepted steps.
C17_OneLinePerOutputCall ==
  /\ \A k \in 1 .. Len(global_info_file) :
        /\ global_info_file[k].fields = <<"t", "flux", "area", "center">>
        /\ global_info_file[k].time = k - 1
  /\ Len(global_info_file) = n_output
  /\ pc \in {"loop_test", "newton", "factor", "test", "accepted", "output",
             "done", "aborted"}
       => Len(global_info_file) = (time_step - 1) + 1
  /\ pc = "policy" => Len(global_info_file) = time_step + 1

\* run() has returned after NSteps accepted steps.
C17_Witness ==
  /\ pc = "done"
  /\ time_step - 1 = NSteps
  /\ Len(global_info_file) = NSteps + 1
  /\ global_info_file[NSteps + 1].time = NSteps


\* ------------------------------------------------------------------------
\* Properties of the assembly (specification AsmSpec).
\* ------------------------------------------------------------------------
Evaluated == n_calls >= 1
JacobianBuilt == Evaluated /\ call.jacobian = "JF"

\* C12 (as stated).  After an evaluation, for every fluid dof d of the map
\* of the boundary values the row d of the residual is
\* scaling * (xi(d) - prescribed(d)) and, when the Jacobian was built, the
\* row d of the Jacobian is zero but for the diagonal, which is scaling.
C12_ConstraintRowsOverwritten ==
  Evaluated =>
    \A d \in DOMAIN boundary_values :
       /\ residual.f[d] = scaling * (call.xi.f[d] - boundary_values[d])
       /\ JacobianBuilt =>
            /\ \A c \in FluidDofs :
                  JF_values.ff[d][c] = IF c = d THEN scaling ELSE 0
            /\ \A c \in SolidDofs : JF_values.fs[d][c] = 0

\* ------------------------------------------------------------------------
\* The fluid cells of the dof d, and the average of the pressure over them.
CellsOfFluidDof(d) ==
  {c \in FluidCells : \E i \in LocalF : get_dof_indices_f[c][i] = d}

\* Sum over the fluid cells of the integrals of the pressure.
SumOfPressureAverages ==
  SumOver([c \in FluidCells |->
             SumOver([i \in LocalF |->
                IF fe_f_component[i] = dim + 1
                THEN call.xi.f[get_dof_indices_f[c][i]] * shape_value_f[i] * JxW_f
                ELSE 0], LocalF)], FluidCells)

\* Sum over the fluid cells of the coefficients of the pressure dof c.
SumOfPressureCoefficients(c) ==
  SumOver([cl \in FluidCells |->
             SumOver([i \in LocalF |->
                IF get_dof_indices_f[cl][i] = c /\ fe_f_component[i] = dim + 1
                THEN shape_value_f[i] * JxW_f ELSE 0], LocalF)], FluidCells)

\* The rows of the residual of the passes before apply_constraints.
UnconstrainedRow(d) ==
  SumOver([c \in FluidCells |->
     distribute_residual(fluid_local_res(c, call.xit, call.xi, cfg),
                         get_dof_indices_f[c], 0, d)], FluidCells)
  + SumOver([pr \in CouplingPairs(MappingField(par, previous_xi, call.xi)) |->
       distribute_residual(
         coupling_V_res(pr[1], pr[2],
                        fluid_maps(MappingField(par, previous_xi, call.xi),
                                   pr[1], pr[2]),
                        call.xi, cfg, localize(M_gamma3_inv_A_gamma, pr[1])),
         get_dof_indices_f[pr[2]], 0, d)],
       CouplingPairs(MappingField(par, previous_xi, call.xi)))

\* C13.  With all_DBC and without fix_pressure the row of constraining_dof
\* of the residual is the sum over the fluid cells of the averages of the
\* pressure times scaling / area, with nothing of the incompressibility
\* equation nor of the coupling, and its row of the Jacobian holds the
\* summed coefficient times scaling / area in the column of each pressure
\* dof and zero elsewhere.  Otherwise no row receives a term of the average
\* of the pressure: a row that is not in the map of the boundary values is
\* the sum of the local residuals, and no pressure dof is coupled to
\* another pressure dof.
C13_PressureConstraintRow ==
  Evaluated =>
    IF PressureAverageConstraint(par, cfg)
    THEN /\ residual.f[constraining_dof]
              = (SumOfPressureAverages * scaling) \div area
         /\ JacobianBuilt =>
              /\ \A c \in FluidDofs :
                    JF_values.ff[constraining_dof][c]
                      = IF c \in pressure_dofs
                        THEN (SumOfPressureCoefficients(c) * scaling) \div area
                        ELSE 0
              /\ \A c \in SolidDofs : JF_values.fs[constraining_dof][c] = 0
    ELSE /\ \A d \in FluidDofs \ DOMAIN boundary_values :
               residual.f[d] = UnconstrainedRow(d)
         /\ JacobianBuilt =>
              \A d \in pressure_dofs \ DOMAIN boundary_values :
                 \A c \in pressure_dofs : JF_values.ff[d][c] = 0

\* The constraint on the pressure is active, the pressure is not zero, the
\* fluid cells of constraining_dof hold quadrature points of the solid and
\* the velocity is not divergence free.
C13_Witness ==
  /\ JacobianBuilt
  /\ PressureAverageConstraint(par, cfg)
  /\ residual.f[constraining_dof] /= 0
  /\ JF_values.ff[constraining_dof][constraining_dof] /= 0
  /\ call.xi = Pattern
  /\ \E pr \in CouplingPairs(MappingField(par, previous_xi, call.xi)) :
        pr[2] \in CellsOfFluidDof(constraining_dof)

\* ------------------------------------------------------------------------
\* C14.  The same evaluation made twice in a row, with the same xi, xit,
\* alpha, t and matrix and nothing changed in between, gives the same
\* residual, the same Jacobian, the same A_gamma and the same boundary
\* values as the first evaluation.
C14_EvaluationIdempotent == n_calls = 2 => Outputs = first_result

\* A second evaluation that built the Jacobian of a state with a nonzero
\* residual, a nonzero A_gamma and a nonzero average of the pressure.
C14_Witness ==
  /\ n_calls = 2
  /\ call.jacobian = "JF"
  /\ PressureAverageConstraint(par, cfg)
  /\ residual.f[constraining_dof] /= 0
  /\ \E d \in SolidDofs : A_gamma[d] /= 0
  /\ \E d \in SolidDofs : residual.s[d] /= 0
  /\ JF_values /= ZeroMatrix

\* ------------------------------------------------------------------------
\* The trial state, its rate and the body force are zero.
ZeroTrialState ==
  /\ Evaluated
  /\ call.xi = ZeroVec
  /\ call.xit = ZeroVec
  /\ cfg.force = 0

\* The only nonzero rows of the residual are rows of the boundary values.
OnlyConstraintRows ==
  /\ \A d \in FluidDofs \ DOMAIN boundary_values : residual.f[d] = 0
  /\ \A d \in SolidDofs : residual.s[d] = 0

\* C15 (as stated).  For every material model and every value of
\* semi_implicit and use_spread, the residual of xi = 0, xit = 0 and zero
\* force is zero outside the rows of the boundary values.
C15_PureConstraintResidual == ZeroTrialState => OnlyConstraintRows

\* C15 (amended).  The same for the material model INH_0, whose stress
\* vanishes in the reference configuration.
C15_PureConstraintResidualINH0 ==
  (ZeroTrialState /\ cfg.material_model = "INH_0") => OnlyConstraintRows

\* INH_0, zero trial state, fluid cells that hold quadrature points of the
\* solid, and a boundary row that is not zero.
C15_Witness ==
  /\ ZeroTrialState
  /\ cfg.material_model = "INH_0"
  /\ CouplingPairs(MappingField(par, previous_xi, call.xi)) /= {}
  /\ \E d \in DOMAIN boundary_values : residual.f[d] /= 0

\* ------------------------------------------------------------------------
\* The image of the quadrature point qs of the solid cell cs under the
\* displacement field w.
DisplacedPoint(w, cs, qs) ==
  quadrature_point_s[cs][qs]
    + SumOver([k \in LocalS |->
                 IF fe_s_component[k] = 1
                 THEN w[get_dof_indices_s[cs][k]] * shape_value_s[k][qs]
                 ELSE 0], LocalS)

\* C16.  The mapping of an evaluation is built from the solid block of the
\* argument xi when semi_implicit is false and from the solid block of
\* previous_xi when it is true, whatever xi is.
C16_MappingField ==
  Evaluated =>
    /\ mapping_src = (IF par.semi_implicit THEN "previous_xi" ELSE "current_xi")
    /\ \A cs \in SolidCells : \A qs \in QuadS :
          mapped_points[cs][qs]
            = DisplacedPoint(IF par.semi_implicit THEN previous_xi.s
                             ELSE call.xi.s, cs, qs)

\* A semi-implicit evaluation whose argument would move a quadrature point
\* elsewhere than the previous solution does.
C16_Witness ==
  /\ Evaluated
  /\ par.semi_implicit
  /\ \E cs \in SolidCells : \E qs \in QuadS :
        DisplacedPoint(call.xi.s, cs, qs) /= DisplacedPoint(previous_xi.s, cs, qs)

\* ------------------------------------------------------------------------
\* The pairs of the evaluation recorded in call, and the quadrature points
\* of a pair.
PairsOfCall == CouplingPairs(MappingField(par, previous_xi, call.xi))
PointsOfPair(pr) ==
  fluid_maps(MappingField(par, previous_xi, call.xi), pr[1], pr[2])

\* The row r of the fluid block is overwritten by apply_constraints.
OverwrittenRow(r) ==
  \/ r \in DOMAIN boundary_values
  \/ PressureAverageConstraint(par, cfg) /\ r = constraining_dof

\* Entry (r, c) of the fluid-solid block made of the derivative of the
\* stress alone.
StressDerivativeEntry(r, c) ==
  IF OverwrittenRow(r) THEN 0
  ELSE SumOver([pr \in PairsOfCall |->
         SumOver([i \in LocalF |->
           SumOver([j \in LocalS |->
             IF /\ get_dof_indices_f[pr[2]][i] = r
                /\ get_dof_indices_s[pr[1]][j] = c
                /\ fe_f_component[i] <= dim
             THEN coupling_V_jac_stress(pr[1], PointsOfPair(pr), call.xi,
                                        cfg, i, j)
             ELSE 0], LocalS)], LocalF)], PairsOfCall)

\* Entry (r, c) of the fluid-solid block made of the term of the Hessian.
HessianEntry(r, c) ==
  IF OverwrittenRow(r) THEN 0
  ELSE SumOver([pr \in PairsOfCall |->
         SumOver([i \in LocalF |->
           SumOver([j \in LocalS |->
             IF /\ get_dof_indices_f[pr[2]][i] = r
                /\ get_dof_indices_s[pr[1]][j] = c
                /\ fe_f_component[i] <= dim
             THEN coupling_V_jac_hessian(pr[1], PointsOfPair(pr), call.xi,
                                         cfg, i, j)
             ELSE 0], LocalS)], LocalF)], PairsOfCall)

\* Entry (r, c) of the solid-fluid block: the interpolation of the velocity.
InterpolationEntry(r, c) ==
  SumOver([pr \in PairsOfCall |->
    SumOver([i \in LocalS |->
      SumOver([j \in LocalF |->
        IF get_dof_indices_s[pr[1]][i] = r /\ get_dof_indices_f[pr[2]][j] = c
        THEN coupling_Y_jac_interpolation(PointsOfPair(pr), i, j)
        ELSE 0], LocalF)], LocalS)], PairsOfCall)

\* Entry (r, c) of the solid-solid block: the mass term Phi_B alpha y.y of
\* every solid cell, once.
MassEntry(r, c) ==
  SumOver([cs \in SolidCells |->
    SumOver([i \in LocalS |->
      SumOver([j \in LocalS |->
        IF /\ get_dof_indices_s[cs][i] = r
           /\ get_dof_indices_s[cs][j] = c
           /\ fe_s_component[i] = fe_s_component[j]
        THEN SumOver([qs \in QuadS |->
               Phi_B * call.alpha * shape_value_s[i][qs]
                 * shape_value_s[j][qs] * JxW_s], QuadS)
        ELSE 0], LocalS)], LocalS)], SolidCells)

\* Row r of the solid residual: the inertial term Phi_B (dw/dt).y of every
\* solid cell, once.
InertiaRow(r) ==
  SumOver([cs \in SolidCells |->
    SumOver([i \in LocalS |->
      IF get_dof_indices_s[cs][i] = r
      THEN SumOver([qs \in QuadS |->
             Phi_B * SumOver([k \in LocalS |->
                        IF fe_s_component[k] = fe_s_component[i]
                        THEN call.xit.s[get_dof_indices_s[cs][k]]
                               * shape_value_s[k][qs]
                        ELSE 0], LocalS)
               * shape_value_s[i][qs] * JxW_s], QuadS)
      ELSE 0], LocalS)], SolidCells)

\* Row r of the solid residual: the coupling - u.y of the pairs.
VelocityRow(r) ==
  SumOver([pr \in PairsOfCall |->
    distribute_residual(
      coupling_Y_res(pr[1], pr[2], PointsOfPair(pr), call.xi),
      get_dof_indices_s[pr[1]], offset, r)], PairsOfCall)

\* Entry (r, c) of the solid-solid block added by the coupling.
PositionEntry(r, c) ==
  SumOver([pr \in PairsOfCall |->
    SumOver([i \in LocalS |->
      SumOver([k \in LocalS |->
        IF get_dof_indices_s[pr[1]][i] = r /\ get_dof_indices_s[pr[1]][k] = c
        THEN coupling_Y_jac_position(pr[2], PointsOfPair(pr), call.xi, i, k)
        ELSE 0], LocalS)], LocalS)], PairsOfCall)

\* C18.  With semi_implicit, an evaluation that builds the Jacobian leaves
\* in the solid-solid block the mass term alone and in the fluid-solid block
\* the derivative of the stress alone, without the term of the Hessian of
\* the shape functions; the solid-fluid block holds the interpolation term.
C18_SemiImplicitJacobian ==
  (JacobianBuilt /\ par.semi_implicit) =>
    /\ \A r \in SolidDofs : \A c \in SolidDofs :
          JF_values.ss[r][c] = MassEntry(r, c)
    /\ \A r \in FluidDofs : \A c \in SolidDofs :
          JF_values.fs[r][c] = StressDerivativeEntry(r, c)
    /\ \A r \in SolidDofs : \A c \in FluidDofs :
          JF_values.sf[r][c] = InterpolationEntry(r, c)

\* A semi-implicit evaluation in which the dropped terms would not be zero
\* and the kept ones are not.
C18_Witness ==
  /\ JacobianBuilt
  /\ par.semi_implicit
  /\ \E r \in FluidDofs : \E c \in SolidDofs : HessianEntry(r, c) /= 0
  /\ \E r \in SolidDofs : \E c \in SolidDofs : PositionEntry(r, c) /= 0
  /\ \E r \in FluidDofs : \E c \in SolidDofs : JF_values.fs[r][c] /= 0
  /\ \E r \in SolidDofs : \E c \in FluidDofs : JF_values.sf[r][c] /= 0
  /\ \E r \in SolidDofs : JF_values.ss[r][r] /= 0

\* ------------------------------------------------------------------------
\* The solid cells none of whose quadrature points lies in a fluid cell.
CellsOutsideFluid ==
  {cs \in SolidCells : \A pr \in PairsOfCall : pr[1] /= cs}

\* C19.  The rows of the solid residual are the coupling with the velocity
\* plus the inertial term of every solid cell, counted once whatever the
\* number of fluid cells the solid cell overlaps, also when it overlaps none;
\* when a Jacobian is built the solid-solid block holds the mass term of
\* every solid cell once.
C19_InertiaOncePerSolidCell ==
  Evaluated =>
    /\ \A r \in SolidDofs : residual.s[r] = VelocityRow(r) + InertiaRow(r)
    /\ JacobianBuilt =>
         \A r \in SolidDofs : \A c \in SolidDofs :
            JF_values.ss[r][c]
              = MassEntry(r, c)
                + (IF par.semi_implicit THEN 0 ELSE PositionEntry(r, c))

\* One solid cell lies in no fluid cell, another one overlaps two fluid
\* cells, and the rate of the displacement is not zero.
C19_Witness ==
  /\ JacobianBuilt
  /\ CellsOutsideFluid /= {}
  /\ \E cs \in SolidCells :
        Cardinality({pr \in PairsOfCall : pr[1] = cs}) = 2
  /\ \A r \in SolidDofs : InertiaRow(r) /= 0
  /\ \E r \in SolidDofs : residual.s[r] /= 0 /\ VelocityRow(r) = 0

\* ------------------------------------------------------------------------
\* The configuration with the other value of use_spread.
OtherForm(cf) == [cf EXCEPT !.use_spread = ~cf.use_spread]

\* The fluid-solid block the same evaluation builds under the configuration
\* cf.
FluidSolidBlock(cf) ==
  Assemble_jacobian(call.jacobian, ZeroMatrix, call.xit, call.xi, call.alpha,
                    MappingField(par, previous_xi, call.xi),
                    M_gamma3_inv_solve(Assemble_A_gamma(ZeroVec.s, call.xi, cf)),
                    boundary_values, par, cf).fs

\* Row d of the fluid residual with the coupling in the direct form
\* (use_spread false) or in the form of the spread operator (true).
FluidRowInForm(d, spread) ==
  SumOver([c \in FluidCells |->
     distribute_residual(fluid_local_res(c, call.xit, call.xi, cfg),
                         get_dof_indices_f[c], 0, d)], FluidCells)
  + SumOver([pr \in PairsOfCall |->
       distribute_residual(
         IF spread
         THEN coupling_V_res_spread(pr[1], pr[2], PointsOfPair(pr),
                                    localize(M_gamma3_inv_A_gamma, pr[1]))
         ELSE coupling_V_res_direct(pr[1], pr[2], PointsOfPair(pr), call.xi,
                                    cfg),
         get_dof_indices_f[pr[2]], 0, d)], PairsOfCall)

\* C20 (as stated).  For the same state and the same semi_implicit the
\* fluid-solid block of the Jacobian built with use_spread differs from the
\* one built without.
C20_SpreadChangesJacobian ==
  JacobianBuilt => JF_values.fs /= FluidSolidBlock(OtherForm(cfg))

\* C20 (amended).  use_spread selects the form of the coupling in the
\* residual of the fluid velocity, one form and never both, and leaves the
\* fluid-solid block of the Jacobian as it is without it.
C20_SpreadSelectsResidualOnly ==
  /\ Evaluated =>
       \A d \in FluidDofs :
          ~OverwrittenRow(d) => residual.f[d] = FluidRowInForm(d, cfg.use_spread)
  /\ JacobianBuilt =>
       /\ JF_values.fs = FluidSolidBlock(cfg)
       /\ JF_values.fs = FluidSolidBlock(OtherForm(cfg))

\* An evaluation with the spread operator whose residual is not the one of
\* the direct form while the fluid-solid block, not zero, is.
C20_Witness ==
  /\ JacobianBuilt
  /\ cfg.use_spread
  /\ ~par.semi_implicit
  /\ \E d \in FluidDofs :
        ~OverwrittenRow(d) /\ FluidRowInForm(d, TRUE) /= FluidRowInForm(d, FALSE)
  /\ \E r \in FluidDofs : \E c \in SolidDofs :
        JF_values.fs[r][c] /= 0 /\ HessianEntry(r, c) /= 0

\* ------------------------------------------------------------------------
\* Further properties of the Newton driver (specification Spec).
\* ------------------------------------------------------------------------
\* The step of run() that calls JF_inv.solve.
SolveStep == pc = "test" /\ pc' \in {"newton", "aborted"}

\* C24.  Every solve uses a factorization initialized from JF after the
\* last evaluation that assembled JF: the first evaluation of the run is
\* made with the Jacobian, no solve is made while no factorization exists,
\* and an evaluation that assembles JF is followed by the factorization
\* before the next solve.
C24_SolveUsesFactorizationOfLastJacobian ==
  /\ []((pc = "newton" /\ last_eval = "none") => update_Jacobian = TRUE)
  /\ [](JF_inv = "uninitialized" => (n_solve = 0 /\ pc /= "test"))
  /\ [](JF_inv = "stale" => pc = "factor")
  /\ [][SolveStep => (JF = "assembled" /\ JF_inv = "current"
                      /\ JF' = JF /\ JF_inv' = JF_inv)]_vars
  /\ [][(JF' /= JF \/ (last_eval' = "JF" /\ pc = "newton" /\ pc' /= "newton"))
          => (pc' = "factor" /\ JF_inv' /= "current")]_vars

\* A solve made with the factorization of a Jacobian assembled again in the
\* course of the second step.
C24_Witness ==
  /\ pc = "newton"
  /\ time_step = 2
  /\ n_solve >= 2
  /\ JF_inv = "current"
  /\ last_eval = "JF"
  /\ ~par.update_jacobian_continuously
  /\ ~par.update_jacobian_at_step_beginning

\* ------------------------------------------------------------------------
\* C25.  When run() ends in the AssertThrow the step that failed is not
\* committed: previous_xi is the solution last written by output_step (the
\* last accepted step, or the initial conditions), the last call of
\* output_step is the one of step time_step - 1, and output_step was called
\* once per accepted step and once for the initial conditions.
C25_FailedStepNotCommitted ==
  pc = "aborted" =>
    /\ previous_xi = last_output.solution
    /\ last_output.step = time_step - 1
    /\ last_output.t = t - 1
    /\ n_output = (time_step - 1) + 1
    /\ Len(global_info_file) = (time_step - 1) + 1
    /\ global_info_file[Len(global_info_file)].time = t - 1

\* The second step fails after the first one was accepted, with an iterate
\* that differs from the accepted solution.
C25_Witness ==
  /\ pc = "aborted"
  /\ time_step = 2
  /\ current_xi /= previous_xi
  /\ previous_xi = last_output.solution
  /\ n_output = 2

\* ------------------------------------------------------------------------
\* C27.  At the head of every Newton iteration 0 <= nonlin_iter <= 14 and
\* outer_nonlin_iter <= 3, so the number of iterations printed when a step
\* converges is below 15 also when the step made 15 solves or more.
C27_CountersAtLoopHead ==
  /\ pc \in {"newton", "factor", "test"} =>
        /\ nonlin_iter \in 0 .. InnerCap - 1
        /\ outer_nonlin_iter \in 0 .. OuterCap
  /\ pc = "accepted" => nonlin_iter \in 0 .. InnerCap - 1

\* A step that converges after more than 15 solves.
C27_Witness ==
  /\ pc = "accepted"
  /\ n_solve > InnerCap
  /\ outer_nonlin_iter >= 1
  /\ nonlin_iter < InnerCap


\* ------------------------------------------------------------------------
\* Further properties of the assembly (specification AsmSpec).
\* ------------------------------------------------------------------------
\* C23 (as stated).  After an evaluation that builds the Jacobian, for
\* every fluid dof d of the map of the boundary values the row d of the
\* residual equals the diagonal JF(d,d) times (xi(d) - prescribed(d)), and
\* every other entry of the row d is zero in the fluid-fluid and in the
\* fluid-solid block.
C23_ConstraintRowConsistent ==
  JacobianBuilt =>
    \A d \in DOMAIN boundary_values :
       /\ residual.f[d]
            = JF_values.ff[d][d] * (call.xi.f[d] - boundary_values[d])
       /\ \A c \in FluidDofs \ {d} : JF_values.ff[d][c] = 0
       /\ \A c \in SolidDofs : JF_values.fs[d][c] = 0

\* ------------------------------------------------------------------------
\* The entries of the Jacobian that the last evaluation wrote with a value
\* other than zero (SparseMatrix::add returns at once on a zero value), per
\* block, computed from the arguments of the call.
WrittenField == MappingField(par, previous_xi, call.xi)

\* Loop over the fluid cells: distribute_jacobian (JF.block(0,0), ...).
WrittenFluidFluid ==
  UNION {
    LET J == FluidPass(cl, call.xit, call.xi, call.alpha, TRUE,
                       boundary_values, par, cfg).jac
    IN {<<get_dof_indices_f[cl][ij[1]], get_dof_indices_f[cl][ij[2]]>> :
          ij \in {ij \in LocalF \X LocalF : J[ij[1]][ij[2]] /= 0}}
    : cl \in FluidCells}

\* distribute_constraint_on_pressure (jacobian.block(0,0), ...).
WrittenGauge ==
  IF PressureAverageConstraint(par, cfg)
  THEN UNION {
         {<<constraining_dof, get_dof_indices_f[cl][i]>> :
            i \in {i \in LocalF :
                     (local_pressure_coefficient(cl, par, cfg, TRUE)[i]
                        * scaling) \div area /= 0}}
         : cl \in FluidCells}
  ELSE {}

\* Equation in V': distribute_jacobian (JF.block(0,1), ...).
WrittenFluidSolid ==
  UNION {
    LET J == CouplingPassV(pr[1], pr[2], WrittenField, call.xi,
                           M_gamma3_inv_A_gamma, TRUE, boundary_values,
                           par, cfg).jac
    IN {<<get_dof_indices_f[pr[2]][ij[1]], get_dof_indices_s[pr[1]][ij[2]]>> :
          ij \in {ij \in LocalF \X LocalS : J[ij[1]][ij[2] + offset] /= 0}}
    : pr \in CouplingPairs(WrittenField)}

\* Equation in Y': distribute_jacobian (JF.block(1,0), ...).
WrittenSolidFluid ==
  UNION {
    LET J == CouplingPassY(pr[1], pr[2], WrittenField, call.xi, TRUE,
                           boundary_values, par, cfg).jac
    IN {<<get_dof_indices_s[pr[1]][ij[1]], get_dof_indices_f[pr[2]][ij[2]]>> :
          ij \in {ij \in LocalS \X LocalF : J[ij[1] + offset][ij[2]] /= 0}}
    : pr \in CouplingPairs(WrittenField)}

\* Equation in Y' and the term in dw/dt: distribute_jacobian
\* (JF.block(1,1), ...).
WrittenSolidSolid ==
  (IF ~par.semi_implicit
   THEN UNION {
          LET J == CouplingPassY(pr[1], pr[2], WrittenField, call.xi, TRUE,
                                 boundary_values, par, cfg).jac
          IN {<<get_dof_indices_s[pr[1]][ij[1]],
                get_dof_indices_s[pr[1]][ij[2]]>> :
                ij \in {ij \in LocalS \X LocalS :
                          J[ij[1] + offset][ij[2] + offset] /= 0}}
          : pr \in CouplingPairs(WrittenField)}
   ELSE {})
  \cup UNION {
    LET J == inertia_jac(cs, call.alpha)
    IN {<<get_dof_indices_s[cs][ij[1]], get_dof_indices_s[cs][ij[2]]>> :
          ij \in {ij \in LocalS \X LocalS :
                    J[ij[1] + offset][ij[2] + offset] /= 0}}
    : cs \in SolidCells}

\* C29: in an evaluation that builds the Jacobian every entry written with
\* a value other than zero lies in the sparsity pattern the matrix was
\* sized with at the start of that evaluation, block by block, and the
\* entries of the row of the constraint on the mean pressure stand in
\* columns of pressure_dofs.
C29_WritesInsidePattern ==
  JacobianBuilt =>
    /\ WrittenFluidFluid \subseteq sparsity.ff
    /\ WrittenGauge \subseteq sparsity.ff
    /\ \A rc \in WrittenGauge :
          rc[1] = constraining_dof /\ rc[2] \in pressure_dofs
    /\ WrittenFluidSolid \subseteq sparsity.fs
    /\ WrittenSolidFluid \subseteq sparsity.sf
    /\ WrittenSolidSolid \subseteq sparsity.ss

\* A fully implicit evaluation whose solid has moved since the constructor
\* located it: coupling entries are written where the pattern of the
\* constructor had none, and the row of the mean pressure is written.
C29_Witness ==
  /\ JacobianBuilt
  /\ ~par.semi_implicit
  /\ WrittenFluidSolid \ InitialSparsity(previous_xi).fs /= {}
  /\ WrittenSolidFluid \ InitialSparsity(previous_xi).sf /= {}
  /\ \E rc \in WrittenGauge : rc[2] /= constraining_dof

\* ------------------------------------------------------------------------
\* Properties of the evaluation for any matrix argument (specification
\* ArgSpec).
\* ------------------------------------------------------------------------
\* The Jacobian of the last call: the domain, coupling, inertial and
\* pressure terms of that evaluation summed into a matrix of zeros.
JacobianOfCall ==
  Assemble_jacobian("JF", ZeroMatrix, call.xit, call.xi, call.alpha,
                    MappingField(par, previous_xi, call.xi),
                    M_gamma3_inv_A_gamma, boundary_values, par, cfg)

\* C30 (as stated).  A call with a non-empty matrix leaves in that matrix
\* the whole Jacobian of the evaluation, whichever matrix it is, and
\* changes no other matrix.
C30_ContributionsGoToArgument ==
  [][/\ (n_calls' /= n_calls /\ call'.jacobian = "JF")
          => (JF_values' = JacobianOfCall' /\ K_values' = K_values)
     /\ (n_calls' /= n_calls /\ call'.jacobian = "K")
          => (K_values' = JacobianOfCall' /\ JF_values' = JF_values)]_vars

\* ------------------------------------------------------------------------
\* Properties of run() with assembled values and exact solves
\* (specification StepSpec).
\* ------------------------------------------------------------------------
\* The dofs of the boundary-value map of a run: the boundary dofs, and the
\* first pressure dof when fix_pressure is set.
ConstrainedDofs ==
  BoundaryDofs \cup (IF par.fix_pressure THEN {constraining_dof} ELSE {})

\* C22: in every Newton iterate of a time step (at step entry, after each
\* update, at acceptance and when the step is given up) every dof of the
\* boundary-value map holds in current_xi the value prescribed for the time
\* of the step.  Whenever the residual is tested, the row of each such dof
\* in the matrix JF_inv was initialized with, be it the Jacobian of this
\* iteration, of an earlier one or of an earlier time step, has a diagonal
\* other than zero and zeros elsewhere, and the residual of the row is
\* zero: the update of an exact solve is zero on the dof, and so is each
\* update made.
C22_ConstrainedDofsDoNotDrift ==
  /\ [](pc \in {"newton", "factor", "test", "accepted", "aborted"} =>
          /\ DOMAIN boundary_values = ConstrainedDofs
          /\ \A d \in ConstrainedDofs :
                /\ boundary_values[d] = Prescribed(d, t)
                /\ current_xi.f[d] = Prescribed(d, t))
  /\ [](pc = "test" =>
          \A d \in ConstrainedDofs :
             /\ JF_inv_values.ff[d][d] /= 0
             /\ \A c \in FluidDofs \ {d} : JF_inv_values.ff[d][c] = 0
             /\ \A c \in SolidDofs : JF_inv_values.fs[d][c] = 0
             /\ residual.f[d] = 0)
  /\ [][(pc = "test" /\ pc' \in {"newton", "aborted"}) =>
          \A d \in ConstrainedDofs : current_xi'.f[d] = current_xi.f[d]]_vars

\* The residual of the second step tested with the factorization of the
\* first step at hand: no Jacobian was built in the second step, the
\* boundary value has changed since the factorization and the first
\* pressure dof is in the map.
C22_Witness ==
  /\ pc = "test"
  /\ time_step = 2
  /\ n_solve = 0
  /\ last_eval = "dummy_JF"
  /\ JF_inv = "current"
  /\ JF_inv_values /= ZeroMatrix
  /\ par.fix_pressure
  /\ call.xi.f[0] /= previous_xi.f[0]

\* ------------------------------------------------------------------------
\* The (fluid dof, solid dof) of the fluid cells in which the points of the
\* solid cells located by the last evaluation lie.
PairsOfLocatedPoints ==
  {rc \in FluidDofs \X SolidDofs :
      \E cs \in SolidCells : \E qs \in QuadS : \E c \in FluidCells :
         /\ mapped_points[cs][qs] = c
         /\ \E i \in LocalF : get_dof_indices_f[c][i] = rc[1]
         /\ \E j \in LocalS : get_dof_indices_s[cs][j] = rc[2]}

\* C21: the coupling blocks of the pattern hold exactly the pairs of the
\* mapping handed to assemble_sparsity, that of the constructor until the
\* first evaluation with JF and, right after an evaluation with JF, that of
\* the points the evaluation located; the other two blocks are those of the
\* constructor; and the Jacobian just built is the sum of the contributions
\* of that evaluation alone.
C21_PatternRebuiltFromScratch ==
  /\ JF = "reinit" => sparsity = InitialSparsity(previous_xi)
  /\ pc = "factor" =>
       /\ sparsity.fs = PairsOfLocatedPoints
       /\ sparsity.sf = {<<rc[2], rc[1]>> : rc \in PairsOfLocatedPoints}
       /\ sparsity.ff = sparsity_ff
       /\ sparsity.ss = sparsity_ss
       /\ JF_values = JacobianOfCall

\* A Jacobian built after the solid has moved: pairs of the pattern of the
\* Jacobian built before have gone, and an entry of that Jacobian (still
\* held by the factorization) is zero in the new one.
C21_Witness ==
  /\ pc = "factor"
  /\ n_solve >= 1
  /\ JF_inv = "stale"
  /\ InitialSparsity(previous_xi).fs \ sparsity.fs /= {}
  /\ sparsity.fs \ InitialSparsity(previous_xi).fs /= {}
  /\ \E r \in FluidDofs : \E c \in SolidDofs :
        JF_inv_values.fs[r][c] /= 0 /\ JF_values.fs[r][c] = 0

\* ------------------------------------------------------------------------
\* The step of run() that evaluates the residual alone.
ResidualOnlyStep == pc = "newton" /\ pc' = "test"

\* C26: an evaluation with the empty dummy_JF leaves the entries and the
\* state of JF, the sparsity pattern, the factorization and the matrix it
\* was initialized with, current_xi (hence xit) and previous_xi as they
\* were, as well as the parameters and the counters of run(); it is made
\* with dummy_JF on current_xi, and computes the map of the boundary values
\* of the time of the step.
C26_ResidualOnlyFrame ==
  [][ResidualOnlyStep =>
       /\ last_eval' = "dummy_JF"
       /\ call'.jacobian = "dummy_JF"
       /\ call'.xi = current_xi /\ call'.xit = current_xit
       /\ JF_values' = JF_values /\ JF' = JF
       /\ K_values' = K_values
       /\ sparsity' = sparsity
       /\ JF_inv' = JF_inv /\ JF_inv_values' = JF_inv_values
       /\ current_xi' = current_xi /\ previous_xi' = previous_xi
       /\ boundary_values' = compute_current_bc(boundary_values, par, t)
       /\ UNCHANGED <<par, cfg, time_step, t, nonlin_iter, outer_nonlin_iter,
                      update_Jacobian, n_solve, n_output, last_output,
                      global_info_file>>]_vars

\* A residual-only evaluation made after the solid has moved: the residual
\* is not zero, the points located are no longer those of the pattern, and
\* JF and its factorization hold the values of an earlier evaluation.
C26_Witness ==
  /\ pc = "test"
  /\ last_eval = "dummy_JF"
  /\ n_solve >= 1
  /\ residual /= [f |-> ZeroVec.f, s |-> ZeroVec.s]
  /\ sparsity.fs /= PairsOfLocatedPoints
  /\ JF_values /= ZeroMatrix
  /\ JF_inv_values = JF_values
  /\ JF_inv = "current"

\* ------------------------------------------------------------------------
\* An evaluation of run() that is not the first of its time step.
LaterEvaluation ==
  pc = "newton" /\ n_solve >= 1 /\ pc' \in {"factor", "test"}

\* An evaluation of run(), the first of its time step or a later one.
AnyEvaluation ==
  pc = "newton" /\ pc' \in {"factor", "test"}

\* C28: previous_xi is not written between the entry of a time step and
\* its acceptance; in the semi-implicit scheme every evaluation of a step
\* locates the points of the solid displaced by previous_xi, so every
\* evaluation after the first of the step finds the points where the one
\* before it did; and when an evaluation builds the Jacobian, the coupling
\* blocks of the pattern are those of these points.
C28_SemiImplicitGraphConstant ==
  /\ [][(pc \in {"newton", "factor", "test"}
           /\ pc' \in {"newton", "factor", "test", "accepted", "aborted"})
          => previous_xi' = previous_xi]_vars
  /\ [][(par.semi_implicit /\ AnyEvaluation) =>
          /\ \A cs \in SolidCells : \A qs \in QuadS :
                mapped_points'[cs][qs]
                  = mapped_quadrature_point(previous_xi.s, cs, qs)
          /\ pc' = "factor" =>
               /\ sparsity'.fs = coupling_sp1(previous_xi.s)
               /\ sparsity'.sf = coupling_sp2(previous_xi.s)]_vars
  /\ [][(par.semi_implicit /\ LaterEvaluation) =>
          /\ mapped_points' = mapped_points
          /\ pc' = "factor" =>
               /\ sparsity'.fs = PairsOfLocatedPoints
               /\ sparsity'.sf
                    = {<<rc[2], rc[1]>> : rc \in PairsOfLocatedPoints}]_vars

\* A Jacobian built in the semi-implicit scheme in a later iteration of a
\* step, the solid block of the iterate being away from previous_xi: the
\* points and the pattern are not those the iterate would give.
C28_Witness ==
  /\ par.semi_implicit
  /\ pc = "factor"
  /\ n_solve >= 1
  /\ current_xi.s /= previous_xi.s
  /\ \E cs \in SolidCells : \E qs \in QuadS :
        mapped_points[cs][qs]
          /= mapped_quadrature_point(current_xi.s, cs, qs)
  /\ sparsity.fs /= coupling_sp1(current_xi.s)
  /\ sparsity.fs /= {}

=========================================================================
